---- MODULE Spec2Model ----
(***************************************************************************)
(* A model of the ASVS code reviewer's detection engine: the line-oriented *)
(* pattern matcher, the contextual detectors, the aggregator analyzeCode   *)
(* and the code around them.  File contents and lines are strings; the     *)
(* regular expressions of the source are kept as syntax trees and run by a *)
(* backtracking matcher with ECMAScript's priorities, so that a match, a   *)
(* capture and the number of non-overlapping matches are computed, not     *)
(* assumed.                                                                *)
(***************************************************************************)
EXTENDS Integers, Sequences, FiniteSets, TLC

VARIABLES
    files,      \* the file records handed to analyzeCode
    rules,      \* the rules handed to analyzeCode
    result,     \* the AnalysisResult of the last call, NoResult before it returns
    passes,     \* the findings the last call pushed, by pass
    lastIndex,  \* lastIndex of each rule's pattern: the RegExp objects outlive a call
    phase,      \* "ready": the caller assembles its input; "done": the call returned
    report,     \* the text generateReport returned for result, NoReport before
    catalog,    \* the array asvsRules of the rule catalog
    calls,      \* the catalog lookups made so far, each with what it returned
    zip,        \* processZipFile: its archive, its position in it, its files and stats
    home        \* the state of the Home page: its four useState values and its pending handler

vars == <<files, rules, result, passes, lastIndex, phase, report, catalog, calls, zip, home>>

(***************************************************************************)
(* Strings.  A character is a string of length one.                        *)
(***************************************************************************)
Ch(s, i) == SubSeq(s, i, i)

\* a sequence given by a function, as the tuple of its values (computed once)
Tup(f) == <<>> \o f

UpperChars == "ABCDEFGHIJKLMNOPQRSTUVWXYZ"

LowerChars == "abcdefghijklmnopqrstuvwxyz"

DigitChars == "0123456789"

CharsOf(s) == {Ch(s, k) : k \in 1..Len(s)}

LowerMap ==
    [c \in CharsOf(UpperChars) |->
        LET k == CHOOSE k \in 1..Len(UpperChars) : Ch(UpperChars, k) = c
        IN  Ch(LowerChars, k)]

LowerCh(c) == IF c \in DOMAIN LowerMap THEN LowerMap[c] ELSE c

\* the recursions below halve their argument: their depth is logarithmic
RECURSIVE toLowerCase(_)
toLowerCase(s) ==
    IF Len(s) = 0 THEN ""
    ELSE IF Len(s) = 1 THEN LowerCh(s)
    ELSE toLowerCase(SubSeq(s, 1, Len(s) \div 2))
            \o toLowerCase(SubSeq(s, Len(s) \div 2 + 1, Len(s)))

\* \w, \s and the line terminators of ECMAScript, over the ASCII characters
WordChars == CharsOf(UpperChars) \cup CharsOf(LowerChars) \cup CharsOf(DigitChars) \cup {"_"}

SpaceChars == {" ", "\t", "\n", "\r", "\f"}

LineTerminators == {"\n", "\r"}

startsWith(s, p) == Len(p) <= Len(s) /\ SubSeq(s, 1, Len(p)) = p

endsWith(s, p) == Len(p) <= Len(s) /\ SubSeq(s, Len(s) - Len(p) + 1, Len(s)) = p

includes(s, p) == \E i \in 1..(Len(s) - Len(p) + 1) : SubSeq(s, i, i + Len(p) - 1) = p

Min(S) == CHOOSE p \in S : \A q \in S : p <= q

Max(S) == CHOOSE p \in S : \A q \in S : p >= q

\* String.prototype.trim: the text from the first to the last non-space character
trim(s) ==
    LET inked == {p \in 1..Len(s) : Ch(s, p) \notin SpaceChars}
    IN  IF inked = {} THEN "" ELSE SubSeq(s, Min(inked), Max(inked))

\* content.split('\n'): the segments between the newline characters, at least one
split(s) ==
    LET nl == {p \in 1..Len(s) : Ch(s, p) = "\n"}
        cut == [k \in 0..(Cardinality(nl) + 1) |->
                  IF k = 0 THEN 0
                  ELSE IF k = Cardinality(nl) + 1 THEN Len(s) + 1
                  ELSE CHOOSE p \in nl : Cardinality({q \in nl : q < p}) = k - 1]
    IN  Tup([k \in 1..(Cardinality(nl) + 1) |-> SubSeq(s, cut[k - 1] + 1, cut[k] - 1)])

\* lines.slice(start, end).join('\n') of a non-empty sequence of lines
RECURSIVE join(_)
join(ls) ==
    IF ls = <<>> THEN ""
    ELSE IF Len(ls) = 1 THEN ls[1]
    ELSE join(SubSeq(ls, 1, Len(ls) \div 2)) \o "\n"
            \o join(SubSeq(ls, Len(ls) \div 2 + 1, Len(ls)))

RECURSIVE Flat(_)
Flat(ss) ==
    IF ss = <<>> THEN <<>>
    ELSE IF Len(ss) = 1 THEN ss[1]
    ELSE Flat(SubSeq(ss, 1, Len(ss) \div 2)) \o Flat(SubSeq(ss, Len(ss) \div 2 + 1, Len(ss)))

(***************************************************************************)
(* Regular expressions.  A pattern is a tree:                              *)
(*   Lit("query")        the characters of a literal                       *)
(*   Set(cs), NotSet(cs) [..] and [^..] ; Dot is the dot                   *)
(*   Cat(<<..>>), Alt(<<..>>), Rep(r, min, max) (greedy; max -1 unbounded) *)
(*   Grp(n, r)           capturing group n                                 *)
(*   Ahead(neg, r), Behind(neg, r)  look-arounds ; WordB, Bol, Eol         *)
(* Run gives the matches of r at position i in backtracking order, each    *)
(* with its end and its captures (<<start, end>>, or <<0, 0>> if unset).   *)
(***************************************************************************)
Lit(s) == [k |-> "lit", s |-> s]

Set(cs) == [k |-> "set", neg |-> FALSE, cs |-> cs]

NotSet(cs) == [k |-> "set", neg |-> TRUE, cs |-> cs]

Dot == [k |-> "set", neg |-> TRUE, cs |-> LineTerminators]

Word == Set(WordChars)

Space == Set(SpaceChars)

Cat(rs) == [k |-> "cat", rs |-> rs]

Alt(rs) == [k |-> "alt", rs |-> rs]

Rep(r, min, max) == [k |-> "rep", r |-> r, min |-> min, max |-> max]

Star(r) == Rep(r, 0, -1)

Plus(r) == Rep(r, 1, -1)

Opt(r) == Rep(r, 0, 1)

Grp(n, r) == [k |-> "grp", n |-> n, r |-> r]

Ahead(neg, r) == [k |-> "ahead", neg |-> neg, r |-> r]

Behind(neg, r) == [k |-> "behind", neg |-> neg, r |-> r]

WordB == [k |-> "wordb"]

Bol == [k |-> "bol"]

Eol == [k |-> "eol"]

\* a RegExp object's source and flags: /tree/ with the flags i and g
RegExp(tree, ignoreCase, global) == [tree |-> tree, i |-> ignoreCase, g |-> global]

NoCaps == [n \in 1..3 |-> <<0, 0>>]

IsWordAt(s, i) == i >= 1 /\ i <= Len(s) /\ Ch(s, i) \in WordChars

RECURSIVE Run(_, _, _, _)
Run(r, s, i, caps) ==
    CASE r.k = "lit" ->
           IF i + Len(r.s) - 1 <= Len(s) /\ SubSeq(s, i, i + Len(r.s) - 1) = r.s
           THEN <<[e |-> i + Len(r.s), caps |-> caps]>>
           ELSE <<>>
      [] r.k = "set" ->
           IF i <= Len(s) /\ ((Ch(s, i) \in r.cs) # r.neg)
           THEN <<[e |-> i + 1, caps |-> caps]>>
           ELSE <<>>
      [] r.k = "cat" ->
           IF r.rs = <<>> THEN <<[e |-> i, caps |-> caps]>>
           ELSE LET first == Run(Head(r.rs), s, i, caps)
                IN  Flat(Tup([j \in 1..Len(first) |->
                                Run(Cat(Tail(r.rs)), s, first[j].e, first[j].caps)]))
      [] r.k = "alt" ->
           Flat(Tup([j \in 1..Len(r.rs) |-> Run(r.rs[j], s, i, caps)]))
      [] r.k = "rep" /\ r.r.k = "set" ->
           \* a repeated character class: the longest run first, then shorter ones
           LET stop == {p \in i..Len(s) : (Ch(s, p) \in r.r.cs) = r.r.neg}
               run  == IF stop = {} THEN Len(s) + 1 - i ELSE Min(stop) - i
               most == IF r.max >= 0 /\ r.max < run THEN r.max ELSE run
           IN  Tup([j \in 1..(most - r.min + 1) |-> [e |-> i + most - j + 1, caps |-> caps]])
      [] r.k = "rep" /\ r.r.k # "set" ->
           IF r.min > 0
           THEN Run(Cat(<<r.r, Rep(r.r, r.min - 1, IF r.max < 0 THEN -1 ELSE r.max - 1)>>),
                    s, i, caps)
           ELSE IF r.max = 0 THEN <<[e |-> i, caps |-> caps]>>
           ELSE LET once == Run(r.r, s, i, caps)
                    more == Tup([j \in 1..Len(once) |->
                               IF once[j].e = i THEN <<>>
                               ELSE Run(Rep(r.r, 0, IF r.max < 0 THEN -1 ELSE r.max - 1),
                                        s, once[j].e, once[j].caps)])
                IN  Flat(more) \o <<[e |-> i, caps |-> caps]>>
      [] r.k = "grp" ->
           LET inner == Run(r.r, s, i, caps)
           IN  Tup([j \in 1..Len(inner) |->
                  [e |-> inner[j].e,
                   caps |-> [inner[j].caps EXCEPT ![r.n] = <<i, inner[j].e>>]]])
      [] r.k = "ahead" ->
           IF (Run(r.r, s, i, caps) # <<>>) # r.neg
           THEN <<[e |-> i, caps |-> caps]>>
           ELSE <<>>
      [] r.k = "behind" ->
           IF (\E b \in 1..i : LET back == Run(r.r, s, b, caps)
                               IN  \E j \in 1..Len(back) : back[j].e = i) # r.neg
           THEN <<[e |-> i, caps |-> caps]>>
           ELSE <<>>
      [] r.k = "wordb" ->
           IF IsWordAt(s, i - 1) # IsWordAt(s, i)
           THEN <<[e |-> i, caps |-> caps]>>
           ELSE <<>>
      [] r.k = "bol" -> IF i = 1 THEN <<[e |-> i, caps |-> caps]>> ELSE <<>>
      [] r.k = "eol" -> IF i = Len(s) + 1 THEN <<[e |-> i, caps |-> caps]>> ELSE <<>>

\* The text a pattern is run on: with the i flag both sides are compared in
\* one case (the literals of an ignore-case pattern are written in lower case).
Subject(re, s) == IF re.i THEN toLowerCase(s) ELSE s

\* RegExpBuiltinExec from position `from` (1-based): the leftmost start at or
\* after `from` with a match, and the first match there; index 0 when none.
RECURSIVE firstStart(_, _, _, _)
firstStart(re, subj, lo, hi) ==
    IF lo > hi THEN 0
    ELSE IF lo = hi THEN (IF Run(re.tree, subj, lo, NoCaps) # <<>> THEN lo ELSE 0)
    ELSE LET mid  == (lo + hi) \div 2
             left == firstStart(re, subj, lo, mid)
         IN  IF left # 0 THEN left ELSE firstStart(re, subj, mid + 1, hi)

execFrom(re, subj, s, from) ==
    LET matchAt(at) ==
          IF at = 0 THEN [index |-> 0, end |-> 0, caps |-> NoCaps]
          ELSE LET first(m) == [index |-> at, end |-> m.e, caps |-> m.caps]
               IN  first(Run(re.tree, subj, at, NoCaps)[1])
    IN  matchAt(firstStart(re, subj, from, Len(s) + 1))

\* the text of capture n; an unset capture (undefined in the source) reads ""
Group(s, m, n) ==
    IF m.caps[n] = <<0, 0>> THEN "" ELSE SubSeq(s, m.caps[n][1], m.caps[n][2] - 1)

Matched(s, m) == SubSeq(s, m.index, m.end - 1)

\* RegExp.prototype.test of a pattern without the g flag
test(re, s) == execFrom(re, Subject(re, s), s, 1).index # 0

\* String.prototype.match with a pattern without the g flag: the first match
matchFirst(re, s) == execFrom(re, Subject(re, s), s, 1)

\* String.prototype.match with a g pattern: lastIndex is set to 0, every
\* non-overlapping match is collected (an empty match advances by one), and
\* lastIndex is 0 again at the end.  No match at all gives null: <<>> here.
RECURSIVE matchAllFrom(_, _, _, _)
matchAllFrom(re, subj, s, from) ==
    LET after(m) ==
          IF m.index = 0 THEN <<>>
          ELSE <<Matched(s, m)>> \o
               matchAllFrom(re, subj, s, IF m.end = m.index THEN m.end + 1 ELSE m.end)
    IN  after(execFrom(re, subj, s, from))

matchAll(re, s) == matchAllFrom(re, Subject(re, s), s, 1)

\* RegExp.prototype.exec of a g pattern whose lastIndex is `last` (0-based, as
\* in the source): the match and the new lastIndex, which is 0 after a failure
exec(re, s, last) ==
    LET after(m) == [m |-> m, lastIndex |-> IF m.index = 0 THEN 0 ELSE m.end - 1]
    IN  after(IF last > Len(s) THEN [index |-> 0, end |-> 0, caps |-> NoCaps]
              ELSE execFrom(re, Subject(re, s), s, last + 1))

(***************************************************************************)
(* Findings and rules (asvs-rules: SecurityRule, SecurityFinding).         *)
(***************************************************************************)
Severities == <<"critical", "high", "medium", "low">>

SecurityRule(id, category, title, description, severity, pattern, level, owaspTop10) ==
    [id |-> id, category |-> category, title |-> title, description |-> description,
     severity |-> severity, pattern |-> pattern, level |-> level, owaspTop10 |-> owaspTop10]

SecurityFinding(rule, file, line, code, match) ==
    [rule |-> rule, file |-> file, line |-> line, code |-> code, match |-> match]

(***************************************************************************)
(* contextual-analyzer: the shared heuristics.  The backquote is not in    *)
(* the alphabet of the model's texts, so the classes ["'`] and [^"'`] are  *)
(* written with the two quotes.                                            *)
(***************************************************************************)
Quotes == {"\"", "'"}

\* a variant whose slice ends at i + size, one line short
getContextShortEnd(lines, lineIndex, contextSize) ==
    LET start == IF lineIndex - contextSize > 1 THEN lineIndex - contextSize ELSE 1
        end   == IF lineIndex + contextSize - 1 < Len(lines) THEN lineIndex + contextSize - 1
                 ELSE Len(lines)
    IN  join(SubSeq(lines, start, end))

\* lines.slice(max(0, i - size), min(length, i + size + 1)).join('\n'), i 1-based here
getContext(lines, lineIndex, contextSize) ==
    LET start == IF lineIndex - contextSize > 1 THEN lineIndex - contextSize ELSE 1
        end   == IF lineIndex + contextSize < Len(lines) THEN lineIndex + contextSize
                 ELSE Len(lines)
    IN  join(SubSeq(lines, start, end))

userInputPatterns ==
    << RegExp(Cat(<<Lit("req."), Alt(<<Lit("body"), Lit("query"), Lit("params"), Lit("headers")>>)>>),
              FALSE, FALSE),
       RegExp(Cat(<<Lit("request."),
                    Alt(<<Lit("form"), Lit("args"), Lit("values"), Lit("json"), Lit("data")>>)>>),
              FALSE, FALSE),
       RegExp(Lit("input("), FALSE, FALSE),
       RegExp(Alt(<<Lit("scanf"), Lit("gets"), Lit("fgets")>>), FALSE, FALSE),
       RegExp(Alt(<<Lit("readLine"), Lit("readline")>>), FALSE, FALSE),
       RegExp(Cat(<<Lit("document."), Alt(<<Lit("getElementById"), Lit("querySelector")>>),
                    Star(Dot), Lit(".value")>>), FALSE, FALSE),
       RegExp(Lit("prompt("), FALSE, FALSE),
       RegExp(Lit("process.argv"), FALSE, FALSE),
       RegExp(Lit("sys.argv"), FALSE, FALSE),
       RegExp(Lit("os.Getenv"), FALSE, FALSE) >>

\* a variant that also asks for an assignment to the variable in the window
isUserInputAssigned(context, varName) ==
    \E k \in 1..Len(userInputPatterns) :
        includes(context, varName \o " = ") /\ test(userInputPatterns[k], context)

isUserInput(context, varName) ==
    \E k \in 1..Len(userInputPatterns) :
        includes(context, varName) /\ test(userInputPatterns[k], context)

sanitizationPatterns ==
    << RegExp(Alt(<<Lit("escape"), Lit("sanitize"), Lit("clean"), Lit("validate"), Lit("filter")>>),
              TRUE, FALSE),
       RegExp(Lit("DOMPurify"), FALSE, FALSE),
       RegExp(Cat(<<Lit("prepared"), Star(Dot), Lit("statement")>>), TRUE, FALSE),
       RegExp(Lit("parameterized"), TRUE, FALSE),
       RegExp(Lit(".prepare("), FALSE, FALSE),
       RegExp(Cat(<<Lit("?"), Star(Space), Lit(",")>>), FALSE, FALSE),
       RegExp(Cat(<<Lit(":"), Plus(Word)>>), FALSE, FALSE) >>

isSanitized(context) ==
    \E k \in 1..Len(sanitizationPatterns) : test(sanitizationPatterns[k], context)

CodeContext(file) ==
    [fileContent |-> file.content, fileName |-> file.path, lines |-> split(file.content)]

(***************************************************************************)
(* contextual-analyzer: the five detectors.  Each embeds its rule.         *)
(***************************************************************************)
sqlPattern ==
    RegExp(Cat(<<Grp(1, Alt(<<Lit("execute"), Lit("query"), Lit("exec"), Lit("prepare"), Lit("sql")>>)),
                 Star(Space), Lit("("), Star(NotSet({")"})), Set(Quotes),
                 Star(NotSet(Quotes)), Lit("+")>>),
           TRUE, TRUE)

sqlConcatPattern == RegExp(Cat(<<Lit("+"), Star(Space), Grp(1, Plus(Word))>>), FALSE, FALSE)

sqlRule ==
    SecurityRule("V5.1.1", "Input Validation", "SQL Injection Risk",
                 "User input is concatenated into SQL query without parameterization",
                 "critical", sqlPattern, 1, <<"A03:2021 - Injection">>)

\* a variant that reports the concatenated variable whether it is user input or not
detectSQLInjectionAnyVariable(ctx) ==
    LET check(i, line, match, context, concatMatch) ==
          IF match # <<>> /\ ~isSanitized(context) /\ concatMatch.index # 0
          THEN <<SecurityFinding(sqlRule, ctx.fileName, i, trim(line), trim(match[1]))>>
          ELSE <<>>
        atLine(i) ==
          check(i, ctx.lines[i], matchAll(sqlPattern, ctx.lines[i]),
                getContext(ctx.lines, i, 10), matchFirst(sqlConcatPattern, ctx.lines[i]))
    IN  Flat(Tup([i \in 1..Len(ctx.lines) |-> atLine(i)]))

detectSQLInjection(ctx) ==
    LET check(i, line, match, context, concatMatch) ==
          IF match # <<>> /\ ~isSanitized(context) /\ concatMatch.index # 0
             /\ isUserInput(context, Group(line, concatMatch, 1))
          THEN <<SecurityFinding(sqlRule, ctx.fileName, i, trim(line), trim(match[1]))>>
          ELSE <<>>
        atLine(i) ==
          check(i, ctx.lines[i], matchAll(sqlPattern, ctx.lines[i]),
                getContext(ctx.lines, i, 10), matchFirst(sqlConcatPattern, ctx.lines[i]))
    IN  Flat(Tup([i \in 1..Len(ctx.lines) |-> atLine(i)]))

cmdPattern ==
    RegExp(Cat(<<Grp(1, Alt(<<Lit("exec"), Lit("system"), Lit("spawn"), Lit("shell_exec"),
                              Lit("passthru"), Lit("runtime.getruntime().exec")>>)),
                 Star(Space), Lit("(")>>),
           TRUE, TRUE)

cmdConcatPattern ==
    RegExp(Alt(<<Cat(<<Lit("+"), Star(Space), Grp(1, Plus(Word))>>),
                 Cat(<<Lit("${"), Grp(2, Plus(Word)), Lit("}")>>),
                 Cat(<<Lit("%s"), Star(Dot), Lit("%"), Star(Space), Lit("("), Grp(3, Plus(Word))>>)>>),
           FALSE, FALSE)

cmdRule ==
    SecurityRule("V5.1.2", "Input Validation", "Command Injection Risk",
                 "User input is used in system command without sanitization",
                 "critical", cmdPattern, 1, <<"A03:2021 - Injection">>)

\* a variant that reports a command whose variable is not user input
detectCommandInjectionAnyVariable(ctx) ==
    LET check(i, line, match, context, concatMatch) ==
          IF match # <<>> /\ concatMatch.index # 0 /\ ~isSanitized(context)
          THEN <<SecurityFinding(cmdRule, ctx.fileName, i, trim(line), trim(match[1]))>>
          ELSE <<>>
        atLine(i) ==
          check(i, ctx.lines[i], matchAll(cmdPattern, ctx.lines[i]),
                getContext(ctx.lines, i, 10), matchFirst(cmdConcatPattern, ctx.lines[i]))
    IN  Flat(Tup([i \in 1..Len(ctx.lines) |-> atLine(i)]))

detectCommandInjection(ctx) ==
    LET check(i, line, match, context, concatMatch) ==
          LET varName == IF Group(line, concatMatch, 1) # "" THEN Group(line, concatMatch, 1)
                         ELSE IF Group(line, concatMatch, 2) # ""
                              THEN Group(line, concatMatch, 2)
                              ELSE Group(line, concatMatch, 3)
          IN  IF match # <<>> /\ concatMatch.index # 0
                 /\ isUserInput(context, varName) /\ ~isSanitized(context)
              THEN <<SecurityFinding(cmdRule, ctx.fileName, i, trim(line), trim(match[1]))>>
              ELSE <<>>
        atLine(i) ==
          check(i, ctx.lines[i], matchAll(cmdPattern, ctx.lines[i]),
                getContext(ctx.lines, i, 10), matchFirst(cmdConcatPattern, ctx.lines[i]))
    IN  Flat(Tup([i \in 1..Len(ctx.lines) |-> atLine(i)]))

xssPattern ==
    RegExp(Cat(<<Grp(1, Alt(<<Lit(".innerhtml"), Lit("dangerouslysetinnerhtml")>>)),
                 Star(Space), Lit("=")>>),
           TRUE, TRUE)

xssValuePattern == RegExp(Cat(<<Lit("="), Star(Space), Grp(1, Plus(Word))>>), FALSE, FALSE)

xssRule ==
    SecurityRule("V5.3.1", "Input Validation", "XSS Risk - innerHTML",
                 "User input is inserted into DOM without sanitization",
                 "high", xssPattern, 1, <<"A03:2021 - Injection">>)

\* a variant that reports the assignment whether the window is sanitized or not
detectXSSIgnoringSanitizer(ctx) ==
    LET check(i, line, match, context, valueMatch) ==
          IF match # <<>> /\ valueMatch.index # 0
             /\ isUserInput(context, Group(line, valueMatch, 1))
          THEN <<SecurityFinding(xssRule, ctx.fileName, i, trim(line), trim(match[1]))>>
          ELSE <<>>
        atLine(i) ==
          check(i, ctx.lines[i], matchAll(xssPattern, ctx.lines[i]),
                getContext(ctx.lines, i, 10), matchFirst(xssValuePattern, ctx.lines[i]))
    IN  Flat(Tup([i \in 1..Len(ctx.lines) |-> atLine(i)]))

detectXSS(ctx) ==
    LET check(i, line, match, context, valueMatch) ==
          IF match # <<>> /\ ~isSanitized(context) /\ valueMatch.index # 0
             /\ isUserInput(context, Group(line, valueMatch, 1))
          THEN <<SecurityFinding(xssRule, ctx.fileName, i, trim(line), trim(match[1]))>>
          ELSE <<>>
        atLine(i) ==
          check(i, ctx.lines[i], matchAll(xssPattern, ctx.lines[i]),
                getContext(ctx.lines, i, 10), matchFirst(xssValuePattern, ctx.lines[i]))
    IN  Flat(Tup([i \in 1..Len(ctx.lines) |-> atLine(i)]))

credPattern ==
    RegExp(Cat(<<WordB,
                 Grp(1, Alt(<<Lit("password"), Lit("passwd"), Lit("pwd"), Lit("secret"),
                              Cat(<<Lit("api"), Opt(Set({"_", "-"})), Lit("key")>>),
                              Lit("apikey"), Lit("token")>>)),
                 Star(Space), Lit("="), Star(Space), Set(Quotes),
                 Grp(2, Plus(NotSet(Quotes))), Set(Quotes)>>),
           TRUE, TRUE)

credPlaceholderPattern ==
    RegExp(Alt(<<Lit("test"), Lit("example"), Lit("demo"), Lit("placeholder"), Lit("xxx"),
                 Lit("your_"), Lit("<"), Lit(">"), Lit("{"), Lit("$")>>),
           FALSE, FALSE)

credEnvPattern ==
    RegExp(Alt(<<Lit("process.env"), Lit("os.getenv"), Lit("env[")>>), TRUE, FALSE)

credEnumPattern ==
    RegExp(Cat(<<Bol, Set(CharsOf(UpperChars)), Star(Word), Star(Space), Lit("=")>>),
           FALSE, FALSE)

credRule ==
    SecurityRule("V2.1.1", "Authentication", "Hardcoded Credentials",
                 "Credentials should not be hardcoded in source code",
                 "critical", credPattern, 1,
                 <<"A07:2021 - Identification and Authentication Failures">>)

\* a variant of the loop that leaves the line at the first rejected match
RECURSIVE credLoopUntilRejected(_, _, _)
credLoopUntilRejected(ctx, i, last) ==
    LET body(line, x) ==
          IF x.m.index = 0 THEN [findings |-> <<>>, lastIndex |-> x.lastIndex]
          ELSE LET credValue == Group(line, x.m, 2)
                   context   == getContext(ctx.lines, i, 5)
                   skip      == \/ includes(credValue, ".") \/ includes(credValue, "/")
                                \/ startsWith(credValue, "auth") \/ startsWith(credValue, "api")
                                \/ Len(credValue) < 6
                                \/ test(credPlaceholderPattern, toLowerCase(credValue))
                                \/ test(credEnvPattern, context)
                                \/ test(credEnumPattern, line)
                   push(rest) ==
                     [findings |->
                        <<SecurityFinding(credRule, ctx.fileName, i, trim(line),
                                          trim(Matched(line, x.m)))>> \o rest.findings,
                      lastIndex |-> rest.lastIndex]
               IN  IF skip THEN [findings |-> <<>>, lastIndex |-> 0]
                   ELSE push(credLoopUntilRejected(ctx, i, x.lastIndex))
    IN  body(ctx.lines[i], exec(credPattern, ctx.lines[i], last))

\* the while loop over credPattern.exec(line), from lastIndex `last`
RECURSIVE credLoop(_, _, _)
credLoop(ctx, i, last) ==
    LET body(line, x) ==
          IF x.m.index = 0 THEN [findings |-> <<>>, lastIndex |-> x.lastIndex]
          ELSE LET credValue == Group(line, x.m, 2)
                   context   == getContext(ctx.lines, i, 5)
                   skip      == \/ includes(credValue, ".") \/ includes(credValue, "/")
                                \/ startsWith(credValue, "auth") \/ startsWith(credValue, "api")
                                \/ Len(credValue) < 6
                                \/ test(credPlaceholderPattern, toLowerCase(credValue))
                                \/ test(credEnvPattern, context)
                                \/ test(credEnumPattern, line)
                   push(rest) ==
                     [findings |->
                        (IF skip THEN <<>>
                         ELSE <<SecurityFinding(credRule, ctx.fileName, i, trim(line),
                                                trim(Matched(line, x.m)))>>) \o rest.findings,
                      lastIndex |-> rest.lastIndex]
               IN  push(credLoop(ctx, i, x.lastIndex))
    IN  body(ctx.lines[i], exec(credPattern, ctx.lines[i], last))

\* the for loop over the lines lo..hi; the pattern's lastIndex goes from line to line
RECURSIVE credLines(_, _, _, _)
credLines(ctx, lo, hi, last) ==
    IF lo > hi THEN [findings |-> <<>>, lastIndex |-> last]
    ELSE IF lo = hi THEN credLoop(ctx, lo, last)
    ELSE LET mid   == (lo + hi) \div 2
             left  == credLines(ctx, lo, mid, last)
             right == credLines(ctx, mid + 1, hi, left.lastIndex)
         IN  [findings |-> left.findings \o right.findings, lastIndex |-> right.lastIndex]

detectHardcodedCredentials(ctx) == credLines(ctx, 1, Len(ctx.lines), 0).findings

evalPattern ==
    RegExp(Cat(<<Behind(TRUE, Lit(".")), Behind(TRUE, Word), WordB, Lit("eval"),
                 Star(Space), Lit("(")>>),
           TRUE, TRUE)

evalMethodPattern ==
    RegExp(Cat(<<Lit("."), Star(Space), Lit("eval"), Star(Space), Lit("(")>>), FALSE, FALSE)

evalNoArgPattern ==
    RegExp(Cat(<<Lit("eval"), Star(Space), Lit("("), Star(Space), Lit(")")>>), FALSE, FALSE)

evalJsonPattern == RegExp(Alt(<<Lit("json"), Lit("parse")>>), TRUE, FALSE)

evalRule ==
    SecurityRule("V5.3.3", "Input Validation", "Dangerous eval() Usage",
                 "eval() should never be used as it can execute arbitrary code",
                 "critical", evalPattern, 1, <<"A03:2021 - Injection">>)

\* a variant that does not reject a call without arguments
detectDangerousEvalAnyArity(ctx) ==
    LET check(i, line, match) ==
          IF match # <<>> /\ ~test(evalMethodPattern, line) /\ ~test(evalJsonPattern, line)
          THEN <<SecurityFinding(evalRule, ctx.fileName, i, trim(line), trim(match[1]))>>
          ELSE <<>>
        atLine(i) == check(i, ctx.lines[i], matchAll(evalPattern, ctx.lines[i]))
    IN  Flat(Tup([i \in 1..Len(ctx.lines) |-> atLine(i)]))

detectDangerousEval(ctx) ==
    LET check(i, line, match) ==
          IF match # <<>> /\ ~test(evalMethodPattern, line)
             /\ ~test(evalNoArgPattern, line) /\ ~test(evalJsonPattern, line)
          THEN <<SecurityFinding(evalRule, ctx.fileName, i, trim(line), trim(match[1]))>>
          ELSE <<>>
        atLine(i) == check(i, ctx.lines[i], matchAll(evalPattern, ctx.lines[i]))
    IN  Flat(Tup([i \in 1..Len(ctx.lines) |-> atLine(i)]))

detectAll(file) ==
    LET all(ctx) ==
          detectSQLInjection(ctx) \o detectCommandInjection(ctx) \o detectXSS(ctx)
             \o detectHardcodedCredentials(ctx) \o detectDangerousEval(ctx)
    IN  all(CodeContext(file))

\* a variant that runs each detector over all the files before the next detector
performContextualAnalysisByDetector(fs) ==
    LET ctxs == Tup([k \in 1..Len(fs) |-> CodeContext(fs[k])])
    IN  Flat(Tup([k \in 1..Len(ctxs) |-> detectSQLInjection(ctxs[k])]))
           \o Flat(Tup([k \in 1..Len(ctxs) |-> detectCommandInjection(ctxs[k])]))
           \o Flat(Tup([k \in 1..Len(ctxs) |-> detectXSS(ctxs[k])]))
           \o Flat(Tup([k \in 1..Len(ctxs) |-> detectHardcodedCredentials(ctxs[k])]))
           \o Flat(Tup([k \in 1..Len(ctxs) |-> detectDangerousEval(ctxs[k])]))

performContextualAnalysis(fs) == Flat(Tup([k \in 1..Len(fs) |-> detectAll(fs[k])]))

(***************************************************************************)
(* code-analyzer: files, languages, frameworks.                            *)
(***************************************************************************)
FileContent(path, content) == [path |-> path, content |-> content]

CODE_FILE_EXTENSIONS ==
    << ".js", ".jsx", ".ts", ".tsx", ".vue", ".py", ".java", ".cs", ".php",
       ".rb", ".go", ".rs", ".swift", ".kt", ".scala", ".cpp", ".c", ".h",
       ".sql", ".sh", ".bash", ".ps1", ".yaml", ".yml", ".json", ".xml",
       ".html", ".css", ".scss", ".sass", ".less" >>

LANGUAGE_MAP ==
    << <<".js", "JavaScript">>, <<".jsx", "JavaScript">>, <<".ts", "TypeScript">>,
       <<".tsx", "TypeScript">>, <<".vue", "Vue">>, <<".py", "Python">>,
       <<".java", "Java">>, <<".cs", "C#">>, <<".php", "PHP">>, <<".rb", "Ruby">>,
       <<".go", "Go">>, <<".rs", "Rust">>, <<".swift", "Swift">>, <<".kt", "Kotlin">>,
       <<".scala", "Scala">>, <<".cpp", "C++">>, <<".c", "C">>, <<".h", "C/C++">>,
       <<".sql", "SQL">>, <<".sh", "Shell">>, <<".bash", "Shell">>,
       <<".ps1", "PowerShell">>, <<".yaml", "YAML">>, <<".yml", "YAML">>,
       <<".json", "JSON">>, <<".xml", "XML">>, <<".html", "HTML">>, <<".css", "CSS">>,
       <<".scss", "SCSS">>, <<".sass", "Sass">>, <<".less", "Less">> >>

\* a variant without the filter: every file passes for a code file
isCodeFileUnfiltered(filename) == TRUE

isCodeFile(filename) ==
    LET ext == toLowerCase(filename)
    IN  \E k \in 1..Len(CODE_FILE_EXTENSIONS) : endsWith(ext, CODE_FILE_EXTENSIONS[k])

extensionPattern == RegExp(Cat(<<Lit("."), Plus(Word), Eol>>), FALSE, FALSE)

getLanguageFromFile(filename) ==
    LET lookup(ext) ==
          LET known == {k \in 1..Len(LANGUAGE_MAP) : LANGUAGE_MAP[k][1] = ext}
          IN  IF known = {} THEN "Other" ELSE LANGUAGE_MAP[Min(known)][2]
        ofMatch(lower, m) == lookup(IF m.index = 0 THEN "" ELSE Matched(lower, m))
        ofLower(lower) == ofMatch(lower, matchFirst(extensionPattern, lower))
    IN  ofLower(toLowerCase(filename))

\* The elements of a set of positions, in increasing order
Sorted(S) == Tup([k \in 1..Cardinality(S) |->
                    CHOOSE x \in S : Cardinality({y \in S : y < x}) = k - 1])

\* Array.prototype.sort with a comparator that compares the keys: a stable sort
\* (ECMAScript 2019), keys[i] being the key of seq[i]
StableSort(seq, keys) ==
    LET place(i) == Cardinality({j \in 1..Len(seq) : keys[j] < keys[i]})
                    + Cardinality({j \in 1..i : keys[j] = keys[i]})
    IN  Tup([p \in 1..Len(seq) |-> seq[CHOOSE i \in 1..Len(seq) : place(i) = p]])

\* path.split('/').pop() || ''
baseName(path) ==
    LET slashes == {p \in 1..Len(path) : Ch(path, p) = "/"}
    IN  IF slashes = {} THEN path ELSE SubSeq(path, Max(slashes) + 1, Len(path))

Framework(name, configFiles, patterns) ==
    [name |-> name, files |-> configFiles, patterns |-> patterns]

Re(tree) == RegExp(tree, FALSE, FALSE)

frameworkPatterns ==
    << Framework("React", <<"package.json">>, <<Re(Lit("\"react\":"))>>),
       Framework("Next.js", <<"next.config.js", "next.config.mjs", "next.config.ts">>,
                 <<Re(Lit("\"next\":"))>>),
       Framework("Vue.js", <<"package.json">>, <<Re(Lit("\"vue\":"))>>),
       Framework("Angular", <<"angular.json", "package.json">>, <<Re(Lit("\"@angular/core\":"))>>),
       Framework("Svelte", <<"package.json">>, <<Re(Lit("\"svelte\":"))>>),
       Framework("Django", <<"manage.py", "settings.py">>,
                 <<Re(Lit("django")), Re(Lit("DJANGO_SETTINGS_MODULE"))>>),
       Framework("Flask", <<>>, <<Re(Lit("from flask import")), Re(Lit("Flask(__name__)"))>>),
       Framework("Express", <<"package.json">>,
                 <<Re(Lit("\"express\":")),
                   Re(Cat(<<Lit("require("), Set(Quotes), Lit("express"), Set(Quotes), Lit(")")>>)),
                   Re(Cat(<<Lit("from "), Set(Quotes), Lit("express"), Set(Quotes)>>))>>),
       Framework("Spring", <<"pom.xml", "build.gradle">>,
                 <<Re(Lit("org.springframework")), Re(Lit("@SpringBootApplication"))>>),
       Framework("Laravel", <<"artisan", "composer.json">>, <<Re(Lit("\"laravel/framework\":"))>>),
       Framework("Ruby on Rails", <<"Gemfile">>,
                 <<Re(Cat(<<Lit("gem "), Set(Quotes), Lit("rails"), Set(Quotes)>>)),
                   Re(Lit("Rails.application"))>>),
       Framework("ASP.NET", <<>>,
                 <<Re(Lit("using System.Web")), Re(Lit("using Microsoft.AspNetCore"))>>),
       Framework("FastAPI", <<>>, <<Re(Lit("from fastapi import")), Re(Lit("FastAPI("))>>),
       Framework("Tailwind CSS", <<"tailwind.config.js", "tailwind.config.ts">>,
                 <<Re(Lit("\"tailwindcss\":"))>>),
       Framework("Bootstrap", <<>>,
                 <<Re(Lit("\"bootstrap\":")), Re(Cat(<<Lit("<link"), Star(Dot), Lit("bootstrap")>>))>>) >>

ConfidenceOrder(c) == CASE c = "high" -> 0 [] c = "medium" -> 1 [] c = "low" -> 2

\* a variant that returns the frameworks in the order of detection, unsorted
detectFrameworksUnsorted(fs) ==
    LET fileMap    == {baseName(fs[k].path) : k \in 1..Len(fs)}
        allContent == join(Tup([k \in 1..Len(fs) |-> fs[k].content]))
        one(fw, names, content) ==
            IF \E c \in 1..Len(fw.files) : fw.files[c] \in names
            THEN <<[name |-> fw.name, confidence |-> "high"]>>
            ELSE IF \E q \in 1..Len(fw.patterns) : test(fw.patterns[q], content)
                 THEN <<[name |-> fw.name,
                         confidence |-> IF Len(fw.patterns) > 1 THEN "medium" ELSE "low"]>>
                 ELSE <<>>
    IN  Flat(Tup([k \in 1..Len(frameworkPatterns) |->
                     one(frameworkPatterns[k], fileMap, allContent)]))

detectFrameworks(fs) ==
    LET fileMap    == {baseName(fs[k].path) : k \in 1..Len(fs)}
        allContent == join(Tup([k \in 1..Len(fs) |-> fs[k].content]))
        one(fw, names, content) ==
            IF \E c \in 1..Len(fw.files) : fw.files[c] \in names
            THEN <<[name |-> fw.name, confidence |-> "high"]>>
            ELSE IF \E q \in 1..Len(fw.patterns) : test(fw.patterns[q], content)
                 THEN <<[name |-> fw.name,
                         confidence |-> IF Len(fw.patterns) > 1 THEN "medium" ELSE "low"]>>
                 ELSE <<>>
        each(names, content) ==
            Flat(Tup([k \in 1..Len(frameworkPatterns) |-> one(frameworkPatterns[k], names, content)]))
        sorted(frameworks) ==
            StableSort(frameworks,
                       Tup([k \in 1..Len(frameworks) |-> ConfidenceOrder(frameworks[k].confidence)]))
    IN  sorted(each(fileMap, allContent))

(***************************************************************************)
(* code-analyzer: analyzeCode.                                             *)
(***************************************************************************)
\* a variant that reads the pattern the way pattern.exec(line) would: one match
\* from lastIndex on, lastIndex left after it
strMatchFromLastIndex(re, s, last) ==
    LET after(x) == [matches |-> IF x.m.index = 0 THEN <<>> ELSE <<Matched(s, x.m)>>,
                     lastIndex |-> x.lastIndex]
    IN  after(exec(re, s, last))

\* a variant that reads the pattern as one without the g flag: the first match only
strMatchFirstOnly(re, s, last) ==
    LET first(m) == [matches |-> IF m.index = 0 THEN <<>> ELSE <<Matched(s, m)>>,
                     lastIndex |-> 0]
    IN  first(matchFirst(re, s))

\* line.match(rule.pattern) with the rule's g pattern, whose lastIndex is `last`:
\* match() starts from lastIndex 0 whatever it was, and leaves it at 0
strMatch(re, s, last) == [matches |-> matchAll(re, s), lastIndex |-> 0]

\* a variant of the list that misses the eval rule
criticalRuleIdsWithoutEval == <<"V5.1.1", "V5.1.2", "V5.3.1", "V2.1.1">>

criticalRuleIds == <<"V5.1.1", "V5.1.2", "V5.3.1", "V5.3.3", "V2.1.1">>

\* a variant that leaves the contextual rules in the pattern pass
nonContextualRulesKeepingAll(rs) == rs

nonContextualRules(rs) ==
    SelectSeq(rs, LAMBDA rule : \A k \in 1..Len(criticalRuleIds) : criticalRuleIds[k] # rule.id)

\* the (file, rule, line) triples in the order of the three nested loops
patternVisits(fileLines, rs) ==
    Flat(Tup([f \in 1..Len(fileLines) |->
        Flat(Tup([r \in 1..Len(rs) |->
            Tup([i \in 1..Len(fileLines[f]) |-> <<f, r, i>>])]))]))

\* the loop body at one triple: one finding per element of matches
patternStep(codeFiles, fileLines, rs, visit, li) ==
    LET push(file, rule, line, got) ==
          [findings |-> Tup([m \in 1..Len(got.matches) |->
                               SecurityFinding(rule, file.path, visit[3], trim(line),
                                               trim(got.matches[m]))]),
           lastIndex |-> [li EXCEPT ![rule.id] = got.lastIndex]]
    IN  push(codeFiles[visit[1]], rs[visit[2]], fileLines[visit[1]][visit[3]],
             strMatch(rs[visit[2]].pattern, fileLines[visit[1]][visit[3]],
                      li[rs[visit[2]].id]))

\* the triples lo..hi of visits in order, from the patterns' lastIndex values li
RECURSIVE patternScan(_, _, _, _, _, _, _)
patternScan(codeFiles, fileLines, rs, visits, lo, hi, li) ==
    IF lo > hi THEN [findings |-> <<>>, lastIndex |-> li]
    ELSE IF lo = hi THEN patternStep(codeFiles, fileLines, rs, visits[lo], li)
    ELSE LET mid   == (lo + hi) \div 2
             left  == patternScan(codeFiles, fileLines, rs, visits, lo, mid, li)
             right == patternScan(codeFiles, fileLines, rs, visits, mid + 1, hi, left.lastIndex)
         IN  [findings |-> left.findings \o right.findings, lastIndex |-> right.lastIndex]

\* the values of seq without repetition, in the order of their first occurrence
FirstSeen(seq) ==
    LET firsts == {i \in 1..Len(seq) : \A j \in 1..(i - 1) : seq[j] # seq[i]}
        order  == Sorted(firsts)
    IN  Tup([k \in 1..Len(order) |-> seq[order[k]]])

\* the sum of a sequence of numbers
RECURSIVE Sum(_)
Sum(seq) == IF seq = <<>> THEN 0 ELSE Head(seq) + Sum(Tail(seq))

Count(seq, v) == Cardinality({i \in 1..Len(seq) : seq[i] = v})

\* a variant of the counting loop that has no counter for the lowest severity
severityCountsOfSkippingLow(findings) ==
    LET sev == Tup([i \in 1..Len(findings) |-> findings[i].rule.severity])
    IN  [critical |-> Count(sev, "critical"), high |-> Count(sev, "high"),
         medium |-> Count(sev, "medium"), low |-> 0]

\* "Update counts": the severity and category counters after the loop over findings
severityCountsOf(findings) ==
    LET sev == Tup([i \in 1..Len(findings) |-> findings[i].rule.severity])
    IN  [critical |-> Count(sev, "critical"), high |-> Count(sev, "high"),
         medium |-> Count(sev, "medium"), low |-> Count(sev, "low")]

\* categoryCounts as its entries, in insertion order
categoryCountsOf(findings) ==
    LET cat == Tup([i \in 1..Len(findings) |-> findings[i].rule.category])
        key == FirstSeen(cat)
    IN  Tup([k \in 1..Len(key) |-> [category |-> key[k], count |-> Count(cat, key[k])]])

\* percentage is a double in the source; here it is held in units of 1/PctScale
\* percent, rounded to the nearest unit (a coarser rounding than the double's)
PctScale == 100 * 100

\* a variant that keeps whole percents only
percentageOfWholePercent(lines, totalLines) ==
    IF totalLines > 0 THEN ((lines * 100) \div totalLines) * PctScale ELSE 0

percentageOf(lines, totalLines) ==
    IF totalLines > 0 THEN (2 * lines * 100 * PctScale + totalLines) \div (2 * totalLines)
    ELSE 0

\* a variant that leaves the languages in the order of their first file
languageStatsOfUnsorted(codeFiles) ==
    LET stats(lang, count) ==
          LET total == Sum(count)
              key   == FirstSeen(lang)
              linesOf(l) == Sum(Tup([k \in 1..Len(lang) |-> IF lang[k] = l THEN count[k] ELSE 0]))
              rows  == Tup([k \in 1..Len(key) |->
                              [language |-> key[k], files |-> Count(lang, key[k]),
                               lines |-> linesOf(key[k]),
                               percentage |-> percentageOf(linesOf(key[k]), total)]])
          IN  [totalLines |-> total, languageStats |-> rows]
    IN  stats(Tup([k \in 1..Len(codeFiles) |-> getLanguageFromFile(codeFiles[k].path)]),
              Tup([k \in 1..Len(codeFiles) |-> Len(split(codeFiles[k].content))]))

\* languageData and totalLines, then languageStats sorted by lines, descending
languageStatsOf(codeFiles) ==
    LET stats(lang, count) ==
          LET total == Sum(count)
              key   == FirstSeen(lang)
              linesOf(l) == Sum(Tup([k \in 1..Len(lang) |-> IF lang[k] = l THEN count[k] ELSE 0]))
              rows  == Tup([k \in 1..Len(key) |->
                              [language |-> key[k], files |-> Count(lang, key[k]),
                               lines |-> linesOf(key[k]),
                               percentage |-> percentageOf(linesOf(key[k]), total)]])
          IN  [totalLines |-> total,
               languageStats |-> StableSort(rows, Tup([k \in 1..Len(rows) |-> 0 - rows[k].lines]))]
    IN  stats(Tup([k \in 1..Len(codeFiles) |-> getLanguageFromFile(codeFiles[k].path)]),
              Tup([k \in 1..Len(codeFiles) |-> Len(split(codeFiles[k].content))]))

severityOrder(sev) ==
    CASE sev = "critical" -> 0 [] sev = "high" -> 1 [] sev = "medium" -> 2 [] sev = "low" -> 3

\* a variant that returns the findings in insertion order
sortFindingsUnsorted(findings) == findings

\* a variant that sorts, then keeps one finding for each (rule, file, line)
sortFindingsOnePerLine(findings) ==
    LET sorted == StableSort(findings,
                             Tup([i \in 1..Len(findings) |->
                                    severityOrder(findings[i].rule.severity)]))
    IN  SelectSeq(sorted,
                  LAMBDA f : f = sorted[Min({k \in 1..Len(sorted) :
                                                /\ sorted[k].rule.id = f.rule.id
                                                /\ sorted[k].file = f.file
                                                /\ sorted[k].line = f.line})])

sortFindings(findings) ==
    StableSort(findings, Tup([i \in 1..Len(findings) |-> severityOrder(findings[i].rule.severity)]))

\* analyzeCode(files, rules) run when the rule patterns' lastIndex values are li:
\* the AnalysisResult, the lastIndex values left behind, and the two lists of
\* findings the run pushed (contextualFindings, then the pattern matcher's)
analyzeCode(fs, rs, li) ==
    LET return(codeFiles, language, contextual, scan) ==
          LET findings == contextual \o scan.findings
          IN  [result |->
                  [totalFiles |-> Len(codeFiles),
                   totalFindings |-> Len(findings),
                   findings |-> sortFindings(findings),
                   severityCounts |-> severityCountsOf(findings),
                   categoryCounts |-> categoryCountsOf(findings),
                   languageStats |-> language.languageStats,
                   frameworks |-> detectFrameworks(fs),
                   totalLines |-> language.totalLines],
               lastIndex |-> scan.lastIndex,
               contextualFindings |-> contextual,
               patternFindings |-> scan.findings]
        loops(codeFiles, rest, fileLines, visits) ==
          patternScan(codeFiles, fileLines, rest, visits, 1, Len(visits), li)
        body(codeFiles, fileLines) ==
          return(codeFiles, languageStatsOf(codeFiles), performContextualAnalysis(codeFiles),
                 loops(codeFiles, nonContextualRules(rs), fileLines,
                       patternVisits(fileLines, nonContextualRules(rs))))
        lines(codeFiles) ==
          body(codeFiles, Tup([f \in 1..Len(codeFiles) |-> split(codeFiles[f].content)]))
    IN  lines(SelectSeq(fs, LAMBDA file : isCodeFile(file.path)))

(***************************************************************************)
(* code-analyzer: generateReport.  The report is the text the function     *)
(* returns, kept by its lines.  The grave accent that encloses a file name  *)
(* and a code excerpt is not in the alphabet of the model's texts: it is   *)
(* written as Backquote.                                                   *)
(***************************************************************************)
Backquote == "'"

UpperMap ==
    [c \in CharsOf(LowerChars) |->
        LET k == CHOOSE k \in 1..Len(LowerChars) : Ch(LowerChars, k) = c
        IN  Ch(UpperChars, k)]

RECURSIVE toUpperCase(_)
toUpperCase(s) ==
    IF Len(s) = 0 THEN ""
    ELSE IF Len(s) = 1 THEN (IF s \in DOMAIN UpperMap THEN UpperMap[s] ELSE s)
    ELSE toUpperCase(SubSeq(s, 1, Len(s) \div 2))
            \o toUpperCase(SubSeq(s, Len(s) \div 2 + 1, Len(s)))

\* `${n}` of a non-negative integer
RECURSIVE String(_)
String(n) ==
    IF n < 10 THEN Ch(DigitChars, n + 1)
    ELSE String(n \div 10) \o Ch(DigitChars, (n % 10) + 1)

\* n.toLocaleString() of a non-negative integer, in a locale that groups the
\* digits by three with commas (en-US)
RECURSIVE toLocaleString(_)
toLocaleString(n) ==
    IF n < 1000 THEN String(n)
    ELSE toLocaleString(n \div 1000) \o ","
            \o String((n % 1000) \div 100) \o String((n % 100) \div 10) \o String(n % 10)

\* percentage.toFixed(1), of a percentage held in units of 1/PctScale percent
toFixed1(percentage) ==
    LET tenths == (percentage * 10 + PctScale \div 2) \div PctScale
    IN  String(tenths \div 10) \o "." \o String(tenths % 10)

\* a.localeCompare(b) for texts of letters, digits and spaces: the spaces come
\* first, then the digits, then the letters whatever their case; texts
\* that differ by case only have the lower case first
CollationOrder == " 0123456789abcdefghijklmnopqrstuvwxyz"

CollationRank(c) ==
    LET at == {k \in 1..Len(CollationOrder) : Ch(CollationOrder, k) = LowerCh(c)}
    IN  IF at = {} THEN 0 ELSE Min(at)

localeCompare(a, b) ==
    LET common == Min({Len(a), Len(b)})
        differ == {k \in 1..common : CollationRank(Ch(a, k)) # CollationRank(Ch(b, k))}
        cased  == {k \in 1..common : Ch(a, k) # Ch(b, k)}
    IN  IF differ # {}
        THEN (IF CollationRank(Ch(a, Min(differ))) < CollationRank(Ch(b, Min(differ)))
              THEN -1 ELSE 1)
        ELSE IF Len(a) # Len(b) THEN (IF Len(a) < Len(b) THEN -1 ELSE 1)
        ELSE IF cased # {}
        THEN (IF Ch(a, Min(cased)) = LowerCh(Ch(a, Min(cased))) THEN -1 ELSE 1)
        ELSE 0

\* groupedByType, as its entries in insertion order
groupedByType(findings) ==
    LET keys == FirstSeen(Tup([k \in 1..Len(findings) |->
                                 <<findings[k].rule.severity, findings[k].rule.category>>]))
    IN  Tup([g \in 1..Len(keys) |->
               [severity |-> keys[g][1], category |-> keys[g][2],
                findings |-> SelectSeq(findings,
                                       LAMBDA f : /\ f.rule.severity = keys[g][1]
                                                  /\ f.rule.category = keys[g][2])]])

\* the comparator of sortedGroups
groupCompare(a, b) ==
    IF severityOrder(a.severity) # severityOrder(b.severity)
    THEN severityOrder(a.severity) - severityOrder(b.severity)
    ELSE localeCompare(a.category, b.category)

\* a variant that leaves the groups in the order of their first finding
sortedGroupsUnsorted(findings) == groupedByType(findings)

\* Object.entries(groupedByType).sort(comparator): a stable sort, the groups
\* that compare lower first
sortGroups(groups) ==
    LET place(i) == Cardinality({j \in 1..Len(groups) : groupCompare(groups[j], groups[i]) < 0})
                    + Cardinality({j \in 1..i : groupCompare(groups[j], groups[i]) = 0})
    IN  Tup([p \in 1..Len(groups) |-> groups[CHOOSE i \in 1..Len(groups) : place(i) = p]])

sortedGroups(findings) == sortGroups(groupedByType(findings))

\* the elements pushed for one finding of a group
findingLines(finding) ==
    << "#### " \o finding.rule.id \o ": " \o finding.rule.title,
       "- **Description:** " \o finding.rule.description,
       "- **File:** " \o Backquote \o finding.file \o Backquote,
       "- **Line:** " \o String(finding.line),
       "- **Code:** " \o Backquote \o finding.code \o Backquote \o "\n" >>

\* the elements pushed for one group
groupLines(group) ==
    << "### [" \o toUpperCase(group.severity) \o "] " \o group.category,
       "**" \o String(Len(group.findings)) \o " finding"
            \o (IF Len(group.findings) # 1 THEN "s" ELSE "") \o "**\n" >>
       \o Flat(Tup([k \in 1..Len(group.findings) |-> findingLines(group.findings[k])]))
       \o <<"">>

\* the array `lines` at the return of generateReport
reportLines(res) ==
    LET groups == sortedGroups(res.findings)
    IN  << "# ASVS Security Code Review Report\n",
           "**Total Files Analyzed:** " \o String(res.totalFiles),
           "**Total Lines of Code:** " \o toLocaleString(res.totalLines),
           "**Total Findings:** " \o String(res.totalFindings) \o "\n",
           "## Language Breakdown" >>
        \o Tup([k \in 1..Len(res.languageStats) |->
                  "- " \o res.languageStats[k].language \o ": "
                       \o toFixed1(res.languageStats[k].percentage) \o "% ("
                       \o String(res.languageStats[k].files) \o " files, "
                       \o toLocaleString(res.languageStats[k].lines) \o " lines)"])
        \o <<"">>
        \o (IF Len(res.frameworks) > 0
            THEN <<"## Frameworks & Libraries Detected">>
                 \o Tup([k \in 1..Len(res.frameworks) |->
                           "- " \o res.frameworks[k].name \o " ("
                                \o res.frameworks[k].confidence \o " confidence)"])
                 \o <<"">>
            ELSE <<>>)
        \o << "## Severity Summary",
              "- Critical: " \o String(res.severityCounts.critical),
              "- High: " \o String(res.severityCounts.high),
              "- Medium: " \o String(res.severityCounts.medium),
              "- Low: " \o String(res.severityCounts.low) \o "\n",
              "## Category Summary" >>
        \o Tup([k \in 1..Len(res.categoryCounts) |->
                  "- " \o res.categoryCounts[k].category \o ": "
                       \o String(res.categoryCounts[k].count)])
        \o << "", "## Detailed Findings\n" >>
        \o Flat(Tup([g \in 1..Len(groups) |-> groupLines(groups[g])]))

generateReport(res) == join(reportLines(res))

(***************************************************************************)
(* asvs-rules: catalog entries handed to analyzeCode, and a rule of the    *)
(* caller's own (the catalog has no rule of severity low).                 *)
(***************************************************************************)
Rule_V5_1_1 ==
    SecurityRule("V5.1.1", "Input Validation", "SQL Injection Risk",
                 "SQL queries should use parameterized statements", "critical",
                 RegExp(Cat(<<Grp(1, Alt(<<Lit("execute"), Lit("query"), Lit("exec")>>)),
                              Star(Space), Lit("("), Star(Space), Set(Quotes), Star(Dot),
                              Lit("+"), Star(Dot), Set(Quotes), Star(Space), Lit(")")>>),
                        TRUE, TRUE),
                 1, <<"A03:2021 - Injection">>)

Rule_V5_3_3 ==
    SecurityRule("V5.3.3", "Input Validation", "XSS Risk - eval",
                 "eval() should never be used with user input", "critical",
                 RegExp(Cat(<<Behind(TRUE, Cat(<<Lit("//"), Star(Space)>>)),
                              Behind(TRUE, Cat(<<Lit("/*"), Star(Dot)>>)),
                              Behind(TRUE, Lit(".")), Behind(TRUE, Word), WordB,
                              Lit("eval"), Star(Space), Lit("("),
                              Ahead(TRUE, Cat(<<Star(Dot), Lit("json")>>)),
                              Ahead(TRUE, Cat(<<Star(Space), Lit(")")>>))>>),
                        TRUE, TRUE),
                 1, <<"A03:2021 - Injection">>)

Rule_V6_2_1 ==
    SecurityRule("V6.2.1", "Cryptography", "Weak Cryptographic Algorithm",
                 "Weak cryptographic algorithms should not be used", "high",
                 RegExp(Cat(<<Grp(1, Alt(<<Lit("md5"), Lit("sha1"), Lit("des"), Lit("rc4"),
                                           Lit("ecb")>>)),
                              Star(Space), Lit("(")>>),
                        TRUE, TRUE),
                 1, <<"A02:2021 - Cryptographic Failures">>)

Rule_V6_2_3 ==
    SecurityRule("V6.2.3", "Cryptography", "Insecure Random Number Generation",
                 "Cryptographically secure random number generators should be used for security-sensitive operations",
                 "medium",
                 RegExp(Cat(<<Lit("math.random()"), Star(Dot), WordB,
                              Grp(1, Alt(<<Lit("password"), Lit("token"), Lit("secret"),
                                           Lit("key"), Lit("salt"), Lit("nonce"),
                                           Lit("session")>>))>>),
                        TRUE, TRUE),
                 2, <<"A02:2021 - Cryptographic Failures">>)

Rule_V10_3_1 ==
    SecurityRule("V10.3.1", "Malicious Code", "Backdoor Pattern",
                 "Potential backdoor or debug code detected", "critical",
                 RegExp(Cat(<<Grp(1, Alt(<<Lit("backdoor"),
                                           Cat(<<Lit("debug"), Opt(Set({"_", "-"})), Lit("mode")>>),
                                           Cat(<<Lit("admin"), Opt(Set({"_", "-"})),
                                                 Lit("override")>>)>>)),
                              Star(Dot), Lit("="), Star(Dot), Lit("true")>>),
                        TRUE, TRUE),
                 1, <<"A04:2021 - Insecure Design">>)

Rule_V13_2_1 ==
    SecurityRule("V13.2.1", "API Security", "CORS Misconfiguration",
                 "CORS should not allow all origins", "high",
                 RegExp(Cat(<<Lit("access-control-allow-origin"), Star(Dot), Lit("*")>>),
                        TRUE, TRUE),
                 1, <<"A05:2021 - Security Misconfiguration">>)

Rule_V2_1_1 ==
    SecurityRule("V2.1.1", "Authentication", "Hardcoded Credentials",
                 "Credentials should not be hardcoded in source code", "critical",
                 RegExp(Cat(<<Behind(TRUE, Cat(<<Lit("//"), Star(Space)>>)),
                              Behind(TRUE, Lit("process.env.")),
                              Behind(TRUE, Cat(<<Lit("import"), Star(Dot)>>)),
                              Behind(TRUE, Cat(<<Lit("export"), Star(Dot)>>)),
                              Behind(TRUE, Cat(<<Set(CharsOf(LowerChars)),
                                                 Star(Set(CharsOf(LowerChars)))>>)),
                              WordB,
                              Grp(1, Alt(<<Lit("password"), Lit("passwd"), Lit("pwd"), Lit("secret"),
                                           Cat(<<Lit("api"), Opt(Set({"_", "-"})), Lit("key")>>),
                                           Lit("apikey"), Lit("token")>>)),
                              Star(Space), Lit("="), Star(Space), Set(Quotes),
                              Ahead(TRUE, Alt(<<Cat(<<Star(Dot), Lit("{"), Star(Dot), Lit("}")>>),
                                                Cat(<<Star(Dot), Lit("<"), Star(Dot), Lit(">")>>),
                                                Cat(<<Star(Dot), Lit("${")>>),
                                                Cat(<<Star(Space), Eol>>),
                                                Lit("test"), Lit("example"), Lit("demo"),
                                                Lit("placeholder"), Lit("xxx"), Lit("auth."),
                                                Lit("api."), Lit("/"), Lit(".")>>)),
                              Rep(NotSet(Quotes), 6, -1), Set(Quotes)>>),
                        TRUE, TRUE),
                 1, <<"A07:2021 - Identification and Authentication Failures">>)

Rule_V2_1_2 ==
    SecurityRule("V2.1.2", "Authentication", "Weak Password Requirements",
                 "Password validation should enforce strong requirements", "high",
                 RegExp(Cat(<<Lit("password"), Star(Dot), Lit("length"), Star(Dot),
                              Set({"<", "="}), Star(Space), Set(CharsOf("1234567")),
                              Ahead(TRUE, Set(CharsOf(DigitChars)))>>),
                        TRUE, TRUE),
                 1, <<"A07:2021 - Identification and Authentication Failures">>)

Rule_V3_2_1 ==
    SecurityRule("V3.2.1", "Session Management", "Insecure Cookie Configuration",
                 "Cookies should be configured with secure flags", "high",
                 RegExp(Cat(<<Lit("setcookie("), Star(NotSet({")"})), Lit(")"),
                              Ahead(TRUE, Cat(<<Star(Dot), Lit("secure"), Star(Dot),
                                                Lit("httponly")>>))>>),
                        TRUE, TRUE),
                 1, <<"A07:2021 - Identification and Authentication Failures">>)

Rule_V3_3_1 ==
    SecurityRule("V3.3.1", "Session Management", "Session ID in URL",
                 "Session identifiers should not be exposed in URLs", "high",
                 RegExp(Cat(<<Grp(1, Alt(<<Lit("sessionid"), Lit("session_id"), Lit("sessid")>>)),
                              Star(Dot), Set({"?", "&"})>>),
                        TRUE, TRUE),
                 1, <<"A07:2021 - Identification and Authentication Failures",
                      "A01:2021 - Broken Access Control">>)

Rule_V5_1_2 ==
    SecurityRule("V5.1.2", "Input Validation", "Command Injection Risk",
                 "System commands should not use unsanitized input", "critical",
                 RegExp(Cat(<<Grp(1, Alt(<<Lit("exec"), Lit("system"), Lit("spawn"),
                                           Lit("runtime.getruntime().exec")>>)),
                              Star(Space), Lit("("), Star(NotSet({")"})), Lit("+"),
                              Star(NotSet({")"})), Lit(")")>>),
                        TRUE, TRUE),
                 1, <<"A03:2021 - Injection">>)

Rule_V5_2_1 ==
    SecurityRule("V5.2.1", "Input Validation", "Path Traversal Risk",
                 "File paths should be validated to prevent directory traversal", "high",
                 RegExp(Cat(<<Grp(1, Alt(<<Lit("readfile"), Lit("writefile"), Lit("openfile"),
                                           Lit("fopen")>>)),
                              Star(Dot), Lit("..")>>),
                        TRUE, TRUE),
                 1, <<"A01:2021 - Broken Access Control">>)

Rule_V5_3_1 ==
    SecurityRule("V5.3.1", "Input Validation", "XSS Risk - innerHTML",
                 "User input should not be directly inserted into DOM", "high",
                 RegExp(Cat(<<Lit(".innerhtml"), Star(Space), Lit("="), Star(Dot),
                              Ahead(TRUE, Lit("dompurify"))>>),
                        TRUE, TRUE),
                 1, <<"A03:2021 - Injection">>)

Rule_V5_3_2 ==
    SecurityRule("V5.3.2", "Input Validation", "XSS Risk - dangerouslySetInnerHTML",
                 "dangerouslySetInnerHTML should be used with sanitized content only", "high",
                 RegExp(Cat(<<Lit("dangerouslysetinnerhtml"), Star(Dot), Lit("__html:"),
                              Ahead(TRUE, Cat(<<Star(Dot), Lit("dompurify")>>))>>),
                        TRUE, TRUE),
                 1, <<"A03:2021 - Injection">>)

Rule_V6_2_2 ==
    SecurityRule("V6.2.2", "Cryptography", "Hardcoded Encryption Key",
                 "Encryption keys should not be hardcoded", "critical",
                 RegExp(Cat(<<Grp(1, Alt(<<Cat(<<Lit("encryption"), Opt(Set({"_", "-"})), Lit("key")>>),
                                           Cat(<<Lit("secret"), Opt(Set({"_", "-"})), Lit("key")>>),
                                           Cat(<<Lit("cipher"), Opt(Set({"_", "-"})), Lit("key")>>)>>)),
                              Star(Space), Lit("="), Star(Space), Set(Quotes),
                              Rep(NotSet(Quotes), 8, -1), Set(Quotes)>>),
                        TRUE, TRUE),
                 1, <<"A02:2021 - Cryptographic Failures">>)

Rule_V7_4_1 ==
    SecurityRule("V7.4.1", "Error Handling", "Sensitive Data in Logs",
                 "Sensitive information should not be logged", "medium",
                 RegExp(Cat(<<Lit("console."),
                              Grp(1, Alt(<<Lit("log"), Lit("error"), Lit("warn")>>)),
                              Star(Dot), WordB,
                              Grp(2, Alt(<<Lit("password"), Lit("token"), Lit("secret"),
                                           Cat(<<Lit("credit"), Opt(Set({"_", "-"})), Lit("card")>>),
                                           Lit("ssn")>>)),
                              WordB>>),
                        TRUE, TRUE),
                 2, <<"A09:2021 - Security Logging and Monitoring Failures">>)

Rule_V7_4_2 ==
    SecurityRule("V7.4.2", "Error Handling", "Stack Trace Exposure",
                 "Stack traces should not be exposed to users in production", "medium",
                 RegExp(Cat(<<Behind(TRUE, Cat(<<Lit("//"), Star(Space)>>)),
                              Grp(1, Alt(<<Lit("printstacktrace"), Lit("print_r"), Lit("var_dump")>>)),
                              Ahead(TRUE, Alt(<<Cat(<<Star(Dot), Lit("development")>>),
                                                Cat(<<Star(Dot), Lit("debug")>>),
                                                Cat(<<Star(Dot), Lit("test")>>)>>))>>),
                        TRUE, TRUE),
                 2, <<"A05:2021 - Security Misconfiguration">>)

Rule_V8_3_1 ==
    SecurityRule("V8.3.1", "Data Protection", "Sensitive Data in Local Storage",
                 "Sensitive data should not be stored in localStorage", "high",
                 RegExp(Cat(<<Lit("localstorage.setitem"), Star(Dot), WordB,
                              Grp(1, Alt(<<Lit("password"), Lit("token"), Lit("secret"),
                                           Cat(<<Lit("credit"), Opt(Set({"_", "-"})), Lit("card")>>),
                                           Lit("ssn")>>)),
                              WordB>>),
                        TRUE, TRUE),
                 1, <<"A02:2021 - Cryptographic Failures", "A04:2021 - Insecure Design">>)

Rule_V9_1_1 ==
    SecurityRule("V9.1.1", "Communications", "Insecure HTTP Connection",
                 "All connections should use HTTPS in production", "high",
                 RegExp(Cat(<<Behind(TRUE, Cat(<<Lit("//"), Star(Space)>>)),
                              Behind(TRUE, Lit("http")), Lit("http://"),
                              Ahead(TRUE, Alt(<<Lit("localhost"), Lit("127.0.0.1"), Lit("0.0.0.0"),
                                                Lit("example.com"), Lit("test."), Lit("schema")>>))>>),
                        TRUE, TRUE),
                 1, <<"A02:2021 - Cryptographic Failures">>)

Rule_V9_2_1 ==
    SecurityRule("V9.2.1", "Communications", "SSL/TLS Verification Disabled",
                 "SSL/TLS certificate verification should not be disabled", "critical",
                 RegExp(Cat(<<Grp(1, Alt(<<Lit("rejectunauthorized"), Lit("verify"),
                                           Lit("ssl_verify")>>)),
                              Star(Dot), Lit("false")>>),
                        TRUE, TRUE),
                 1, <<"A02:2021 - Cryptographic Failures", "A05:2021 - Security Misconfiguration">>)

Rule_V12_1_1 ==
    SecurityRule("V12.1.1", "Files and Resources", "File Upload without Validation",
                 "File uploads should validate file type and size", "high",
                 RegExp(Alt(<<Lit("multer("), Lit("upload.single"),
                              Cat(<<Lit("formidable"),
                                    Ahead(TRUE, Cat(<<Star(Dot), Lit("filefilter")>>))>>)>>),
                        TRUE, TRUE),
                 1, <<"A03:2021 - Injection", "A04:2021 - Insecure Design">>)

Rule_V13_1_1 ==
    SecurityRule("V13.1.1", "API Security", "Missing Rate Limiting",
                 "Sensitive API endpoints should implement rate limiting", "medium",
                 RegExp(Cat(<<Lit("app."), Grp(1, Alt(<<Lit("post"), Lit("put"), Lit("delete")>>)),
                              Star(Space), Lit("("), Set(Quotes), Lit("/"),
                              Grp(2, Alt(<<Lit("login"), Lit("register"), Lit("auth"), Lit("api"),
                                           Lit("password"), Lit("reset")>>)),
                              Star(Dot), Lit("async"), Star(Dot), Lit(")"),
                              Ahead(TRUE, Cat(<<Star(Dot), Lit("ratelimit")>>))>>),
                        TRUE, TRUE),
                 2, <<"A07:2021 - Identification and Authentication Failures">>)

Rule_V14_2_1 ==
    SecurityRule("V14.2.1", "Configuration", "Debug Mode Enabled",
                 "Debug mode should be disabled in production", "high",
                 RegExp(Cat(<<Behind(TRUE, Cat(<<Lit("//"), Star(Space)>>)),
                              Behind(TRUE, Lit("process.env.")),
                              Grp(1, Alt(<<Lit("debug"), Lit("node_env")>>)),
                              Star(Space), Lit("="), Star(Space), Set(Quotes),
                              Grp(2, Alt(<<Lit("true"), Lit("1"), Lit("development")>>)),
                              Set(Quotes),
                              Ahead(TRUE, Alt(<<Cat(<<Star(Dot), Lit("process.env")>>),
                                                Cat(<<Star(Dot), Lit("config")>>)>>))>>),
                        TRUE, TRUE),
                 1, <<"A05:2021 - Security Misconfiguration">>)

\* the catalog, in its order
asvsRules ==
    << Rule_V2_1_1, Rule_V2_1_2, Rule_V3_2_1, Rule_V3_3_1, Rule_V5_1_1, Rule_V5_1_2,
       Rule_V5_2_1, Rule_V5_3_1, Rule_V5_3_2, Rule_V5_3_3, Rule_V6_2_1, Rule_V6_2_2,
       Rule_V6_2_3, Rule_V7_4_1, Rule_V7_4_2, Rule_V8_3_1, Rule_V9_1_1, Rule_V9_2_1,
       Rule_V10_3_1, Rule_V12_1_1, Rule_V13_1_1, Rule_V13_2_1, Rule_V14_2_1 >>

CallerRule ==
    SecurityRule("X1.0.1", "Maintenance", "Unfinished Code",
                 "Code marked as unfinished", "low",
                 RegExp(Cat(<<WordB, Grp(1, Alt(<<Lit("todo"), Lit("fixme")>>)), WordB>>),
                        TRUE, TRUE),
                 3, <<>>)

\* the rule lists a caller hands over
RuleLists ==
    { <<Rule_V6_2_1, Rule_V5_3_3, Rule_V13_2_1, Rule_V10_3_1, Rule_V6_2_3, CallerRule>>,
      <<CallerRule, Rule_V6_2_3, Rule_V5_1_1, Rule_V6_2_1>> }

RuleIds == {asvsRules[k].id : k \in 1..Len(asvsRules)} \cup {CallerRule.id}

(***************************************************************************)
(* The file records a caller hands over: the entries of an archive, each   *)
(* under its own path.                                                     *)
(***************************************************************************)
FileCorpus ==
    { FileContent("src/db.js",
        "res.header(\"Access-Control-Allow-Origin\", \"*\");\nconst id = req.query.id;\ndb.query(\"SELECT * FROM t WHERE id=\" + id);\nconst h = MD5(id) + SHA1(id);"),
      FileContent("lib/auth.py",
        "password = \"hunter2222\"; token = \"abcdef123456\"\ndebug_mode = true  # TODO FIXME\n"),
      FileContent("web/app.TS",
        "const html = req.body.html;\n  el.innerHTML = html;  // TODO\neval(html); eval(html)"),
      FileContent("run.js",
        "exec(\"ls \" + process.argv[2]);\nconst key = Math.random() + salt;"),
      FileContent("Gemfile", "gem \"rails\"\npassword = \"SuperSecret123\" # TODO"),
      FileContent("docs/README.md", "from flask import Flask\neval(x) // TODO MD5(x)") }

MaxFiles == 2

NoResult == [totalFiles |-> -1]

NoPasses == [contextualFindings |-> <<>>, patternFindings |-> <<>>]

FreshLastIndex == [id \in RuleIds |-> 0]

NoReport == [lines |-> <<>>]

\* processZipFile not yet called
NoZip == [phase |-> "idle"]

\* the Home page as it is first rendered; at is where its handleFileSelect waits,
\* inFlight the number of calls of handleFileSelect that have not ended
NoHome == [state |-> "idle", progress |-> "", result |-> NoResult, error |-> "",
           at |-> "none", inFlight |-> 0]

Init ==
    /\ files = <<>>
    /\ rules = <<>>
    /\ result = NoResult
    /\ passes = NoPasses
    /\ lastIndex = FreshLastIndex
    /\ phase = "ready"
    /\ report = NoReport
    /\ catalog = asvsRules
    /\ calls = <<>>
    /\ zip = NoZip
    /\ home = NoHome

\* the caller adds a file record, of a path not yet in its list
AddFile ==
    /\ phase = "ready"
    /\ Len(files) < MaxFiles
    /\ \E file \in FileCorpus :
          /\ \A k \in 1..Len(files) : files[k].path # file.path
          /\ files' = Append(files, file)
    /\ UNCHANGED <<rules, result, passes, lastIndex, phase, report, catalog, calls, zip, home>>

\* the caller selects its rules
ChooseRules ==
    /\ phase = "ready"
    /\ \E rs \in RuleLists : rules' = rs
    /\ UNCHANGED <<files, result, passes, lastIndex, phase, report, catalog, calls, zip, home>>

\* the call analyzeCode(files, rules)
Analyze ==
    /\ phase = "ready"
    /\ \E run \in {analyzeCode(files, rules, lastIndex)} :
          /\ result' = run.result
          /\ passes' = [contextualFindings |-> run.contextualFindings,
                        patternFindings |-> run.patternFindings]
          /\ lastIndex' = run.lastIndex
    /\ phase' = "done"
    /\ UNCHANGED <<files, rules, report, catalog, calls, zip, home>>

\* the caller drops the result and starts over with a new list
NewScan ==
    /\ phase = "done"
    /\ files' = <<>>
    /\ result' = NoResult
    /\ passes' = NoPasses
    /\ phase' = "ready"
    /\ report' = NoReport
    /\ UNCHANGED <<rules, lastIndex, catalog, calls, zip, home>>

Next == AddFile \/ ChooseRules \/ Analyze \/ NewScan

Spec == Init /\ [][Next]_vars

(***************************************************************************)
(* Scenario D: two files of plain text lines, 80 and 20 lines long, of     *)
(* different languages, with or without a newline after the last line.     *)
(***************************************************************************)
ScenarioLineCounts == <<80, 20>>

ScenarioExtensions == {".py", ".js", ".go"}

\* n lines of text, the last one closed by a newline or not
TextOf(n, closed) == join(Tup([k \in 1..n |-> "x"])) \o (IF closed THEN "\n" ELSE "")

\* the caller adds a text file, of a language not yet in its list
AddTextFile ==
    /\ phase = "ready"
    /\ Len(files) < Len(ScenarioLineCounts)
    /\ \E ext \in ScenarioExtensions, c \in 1..Len(ScenarioLineCounts), closed \in BOOLEAN :
          /\ \A k \in 1..Len(files) : files[k].path # "main" \o ext
          /\ files' = Append(files,
                             FileContent("main" \o ext, TextOf(ScenarioLineCounts[c], closed)))
    /\ UNCHANGED <<rules, result, passes, lastIndex, phase, report, catalog, calls, zip, home>>

NextD == AddTextFile \/ Analyze \/ NewScan

SpecD == Init /\ [][NextD]_vars

(***************************************************************************)
(* asvs-rules: the lookups over the catalog.  A caller makes up to         *)
(* MaxCalls of them; calls keeps each with what it returned.               *)
(***************************************************************************)
\* a variant that keeps the rules below the level only
getASVSLevelRulesBelow(level) == SelectSeq(catalog, LAMBDA rule : rule.level < level)

getASVSLevelRules(level) == SelectSeq(catalog, LAMBDA rule : rule.level <= level)

getRulesByCategory(category) == SelectSeq(catalog, LAMBDA rule : rule.category = category)

\* Array.from(new Set(...)): the categories in the order of their first rule
getCategories == FirstSeen(Tup([k \in 1..Len(catalog) |-> catalog[k].category]))

\* the values of the parameter's type 1 | 2 | 3
Levels == 1..3

\* the categories a caller asks for: those of the catalog and one it has not
LookupCategories == {asvsRules[k].category : k \in 1..Len(asvsRules)} \cup {"Logging"}

MaxCalls == 2

LookupLevel ==
    /\ Len(calls) < MaxCalls
    /\ \E level \in Levels :
          calls' = Append(calls, [fn |-> "getASVSLevelRules", level |-> level, category |-> "",
                                  returned |-> getASVSLevelRules(level)])
    /\ UNCHANGED <<files, rules, result, passes, lastIndex, phase, report, catalog, zip, home>>

LookupCategory ==
    /\ Len(calls) < MaxCalls
    /\ \E category \in LookupCategories :
          calls' = Append(calls, [fn |-> "getRulesByCategory", level |-> 0, category |-> category,
                                  returned |-> getRulesByCategory(category)])
    /\ UNCHANGED <<files, rules, result, passes, lastIndex, phase, report, catalog, zip, home>>

ListCategories ==
    /\ Len(calls) < MaxCalls
    /\ calls' = Append(calls, [fn |-> "getCategories", level |-> 0, category |-> "",
                               returned |-> getCategories])
    /\ UNCHANGED <<files, rules, result, passes, lastIndex, phase, report, catalog, zip, home>>

NextCatalog == LookupLevel \/ LookupCategory \/ ListCategories

SpecCatalog == Init /\ [][NextCatalog]_vars

(***************************************************************************)
(* Scenarios A, B and C and their neighbours: one source file of two       *)
(* lines, a line of surrounding code and a line a detector looks at, in    *)
(* either order, scanned with the catalog as page.tsx does.                *)
(***************************************************************************)
ContextLines ==
    { "",
      "const name = req.body.name;",
      "const stmt = db.prepare(sql);",
      "const key = process.env.KEY;",
      "name = escape(name);" }

TargetLines ==
    { "query(\"SELECT * FROM t WHERE id=\" + req.query.id)",
      "db.query(\"SELECT * FROM t WHERE n=\" + name);",
      "db.query(\"SELECT 1\" + \"2\");",
      "exec(\"ls \" + process.argv[2]);",
      "system(\"rm \" + name);",
      "exec(\"cat ${name}\");",
      "exec(\"ls -l\");",
      "const password = \"SuperSecret123\";",
      "password = \"abc\"; token = \"abcdef123456\"",
      "secret = \"example_value1\"; pwd = \"v1.2.3.4\"",
      "Password = \"SuperSecret123\"",
      "api_key = \"api_live_123456\"; token = \"<your_token>\"",
      "eval(userCode)",
      "model.eval()",
      "eval()",
      "x = eval(data) // parse",
      "obj. eval(code)",
      "const total = a + name;",
      "el.innerHTML = name;", "el.innerHTML = req.body.html;",
      "<div dangerouslySetInnerHTML={{__html: name}} />",
      "el.innerHTML = DOMPurify.sanitize(name);", "el.textContent = name;",
      "db.query(\"SELECT * FROM t LIMIT \" + limit);" }

\* the archive holds one source file; the rules are the catalog's
AddSnippet ==
    /\ phase = "ready"
    /\ files = <<>>
    /\ \E context \in ContextLines, target \in TargetLines, contextFirst \in BOOLEAN :
          files' = <<FileContent("src/app.js",
                                 IF contextFirst THEN join(<<context, target>>)
                                 ELSE join(<<target, context>>))>>
    /\ rules' = catalog
    /\ UNCHANGED <<result, passes, lastIndex, phase, report, catalog, calls, zip, home>>

NextLines == AddSnippet \/ Analyze \/ NewScan

SpecLines == Init /\ [][NextLines]_vars

(***************************************************************************)
(* Projects: the files of an archive that holds framework configuration    *)
(* files and sources that mention frameworks, scanned with the catalog.    *)
(***************************************************************************)
ProjectFiles ==
    << FileContent("Gemfile", "source \"https://rubygems.org\""),
       FileContent("package.json", "{ \"name\": \"shop\" }"),
       FileContent("api/manage.py", "import django"),
       FileContent("app/server.py", "from flask import Flask"),
       FileContent("src/main.ts", "import express from 'express'"),
       FileContent("web/deps.json", "{ \"react\": \"18\", \"next\": \"14\" }"),
       FileContent("docs/README.md", "a shop") >>

\* the archive held any of the project files, in the archive's order
AddProject ==
    /\ phase = "ready"
    /\ files = <<>>
    /\ \E chosen \in SUBSET (1..Len(ProjectFiles)) :
          /\ chosen # {}
          /\ files' = SelectSeq(ProjectFiles,
                                LAMBDA f : \E k \in chosen : ProjectFiles[k] = f)
    /\ rules' = catalog
    /\ UNCHANGED <<result, passes, lastIndex, phase, report, catalog, calls, zip, home>>

NextFrameworks == AddProject \/ Analyze \/ NewScan

SpecFrameworks == Init /\ [][NextFrameworks]_vars

(***************************************************************************)
(* The download of the report: an archive of source and project files is   *)
(* scanned with the catalog and the report of the result is generated.     *)
(***************************************************************************)
ReportFiles ==
    << FileContent("lib/empty.py", ""),
       FileContent("src/db.js",
         "const id = req.query.id;\ndb.query(\"SELECT * FROM t WHERE id=\" + id);\nconst password = \"SuperSecret123\";"),
       FileContent("web/view.ts",
         "const h = MD5(id);\nres.header(\"Access-Control-Allow-Origin\", \"*\");\nconst g = SHA1(id);"),
       FileContent("lib/rand.py", "x = Math.random() # token"),
       FileContent("lib/util.py", "x = 1"),
       FileContent("Gemfile", "gem \"rails\""),
       FileContent("docs/notes.md", "nothing") >>

\* the archive held any of the files, in the archive's order, or none
AddArchive ==
    /\ phase = "ready"
    /\ files = <<>>
    /\ \E chosen \in SUBSET (1..Len(ReportFiles)) :
          /\ chosen # {}
          /\ files' = SelectSeq(ReportFiles, LAMBDA f : \E k \in chosen : ReportFiles[k] = f)
    /\ rules' = catalog
    /\ UNCHANGED <<result, passes, lastIndex, phase, report, catalog, calls, zip, home>>

\* handleDownloadReport: the report of the result on display, as the lines of
\* the downloaded text
DownloadReport ==
    /\ phase = "done"
    /\ report' = [lines |-> split(generateReport(result))]
    /\ UNCHANGED <<files, rules, result, passes, lastIndex, phase, catalog, calls, zip, home>>

NextReport == AddArchive \/ Analyze \/ DownloadReport \/ NewScan

SpecReport == Init /\ [][NextReport]_vars

(***************************************************************************)
(* zip-processor: processZipFile.  The call runs from one await to the     *)
(* next: up to JSZip.loadAsync, then up to the zipEntry.async('text') of   *)
(* the first entry that is neither a directory nor skipped, then from the  *)
(* settling of each decode up to the next one or to the return.  An entry  *)
(* holds its name, whether it is a directory, whether its decode succeeds  *)
(* (and the message of the error otherwise), its text and the size in      *)
(* bytes of that text.                                                     *)
(***************************************************************************)
MAX_FILE_SIZE == 10 * 1024 * 1024

MAX_TOTAL_SIZE == 50 * 1024 * 1024

MAX_FILES == 1000

ZipEntry(name, dir, decodes, text, bytes, message) ==
    [name |-> name, dir |-> dir, decodes |-> decodes, text |-> text, bytes |-> bytes,
     message |-> message]

TextEntry(name, text) == ZipEntry(name, FALSE, TRUE, text, Len(text), "")

\* the entries an archive may hold; their names differ, as the keys of zip.files do
EntryKinds ==
    { ZipEntry("src/", TRUE, TRUE, "", 0, ""),
      TextEntry(".env", "KEY=1"),
      TextEntry("node_modules/x/index.js", "eval(x)"),
      TextEntry("src/app.js", "eval(userCode)"),
      TextEntry("README.md", "a shop"),
      ZipEntry("data/dump.sql", FALSE, TRUE, "INSERT", MAX_FILE_SIZE + 1, ""),
      ZipEntry("img/logo.png", FALSE, FALSE, "", 0, "Corrupted zip : CRC32 mismatch") }

MaxEntries == 3

\* the archives of up to MaxEntries entries, as zipFiles
Archives ==
    UNION { {a \in [1..n -> EntryKinds] : \A i, j \in 1..n : a[i] = a[j] => i = j} :
              n \in 0..MaxEntries }

\* the uploaded File: its size, whether JSZip can load it, the number of its
\* entries and the entries (left out of an archive of more than MAX_FILES)
Upload(size, loads, length, entries) ==
    [size |-> size, loads |-> loads, length |-> length, entries |-> entries]

Uploads ==
    {Upload(1024, TRUE, Len(a), Tup(a)) : a \in Archives}
       \cup { Upload(MAX_TOTAL_SIZE + 1, TRUE, 0, <<>>),
              Upload(1024, FALSE, 0, <<>>),
              Upload(1024, TRUE, MAX_FILES + 1, <<>>) }

NewStats ==
    [totalFiles |-> 0, processedFiles |-> 0, skippedFiles |-> 0, totalSize |-> 0, errors |-> <<>>]

\* "Skip hidden files and system files"
isHidden(name) == includes(name, "/.") \/ startsWith(name, ".")

\* "Skip node_modules and common build directories"
isBuildPath(name) ==
    \/ includes(name, "node_modules/") \/ includes(name, "dist/")
    \/ includes(name, "build/") \/ includes(name, ".git/")
    \/ includes(name, "vendor/") \/ includes(name, "venv/")

\* the loop from entry k up to the next zipEntry.async('text'): directories
\* are passed, hidden and build entries are counted as skipped
RECURSIVE scanFrom(_, _, _)
scanFrom(entries, k, stats) ==
    IF k > Len(entries) THEN [next |-> k, stats |-> stats]
    ELSE IF entries[k].dir THEN scanFrom(entries, k + 1, stats)
    ELSE IF isHidden(entries[k].name) \/ isBuildPath(entries[k].name)
         THEN scanFrom(entries, k + 1, [stats EXCEPT !.skippedFiles = @ + 1])
    ELSE [next |-> k, stats |-> stats]

\* the call after the loop went on from entry k: it awaits a decode or returns
goOn(z, k, fs, stats) ==
    LET to(scan) ==
          [phase |-> IF scan.next > Len(z.entries) THEN "resolved" ELSE "decoding",
           entries |-> z.entries, next |-> scan.next, files |-> fs, stats |-> scan.stats,
           error |-> ""]
    IN  to(scanFrom(z.entries, k, stats))

rejected(z, message) ==
    [phase |-> "rejected", entries |-> z.entries, next |-> z.next, files |-> z.files,
     stats |-> z.stats, error |-> message]

\* a variant without the try around the decode: the error reaches the outer catch
afterDecodeUncaught(z) ==
    LET e == z.entries[z.next]
    IN  IF ~e.decodes THEN rejected(z, "Failed to process zip file: " \o e.message)
        ELSE IF e.bytes > MAX_FILE_SIZE
        THEN goOn(z, z.next + 1, z.files,
                  [z.stats EXCEPT !.errors = Append(@, "File " \o e.name
                                       \o " exceeds maximum size (10MB)"),
                                  !.skippedFiles = @ + 1])
        ELSE goOn(z, z.next + 1, Append(z.files, FileContent(e.name, e.text)),
                  [z.stats EXCEPT !.totalSize = @ + e.bytes, !.processedFiles = @ + 1])

\* a variant that adds the size of an entry to totalSize before the size test
afterDecodeSizeFirst(z) ==
    LET e == z.entries[z.next]
    IN  IF ~e.decodes
        THEN goOn(z, z.next + 1, z.files,
                  [z.stats EXCEPT !.errors = Append(@, "Error processing " \o e.name
                                       \o ": " \o e.message),
                                  !.skippedFiles = @ + 1])
        ELSE IF e.bytes > MAX_FILE_SIZE
        THEN goOn(z, z.next + 1, z.files,
                  [z.stats EXCEPT !.errors = Append(@, "File " \o e.name
                                       \o " exceeds maximum size (10MB)"),
                                  !.totalSize = @ + e.bytes,
                                  !.skippedFiles = @ + 1])
        ELSE goOn(z, z.next + 1, Append(z.files, FileContent(e.name, e.text)),
                  [z.stats EXCEPT !.totalSize = @ + e.bytes, !.processedFiles = @ + 1])

\* the body of the inner try and its catch, once the decode of entry z.next settled
afterDecode(z) ==
    LET e == z.entries[z.next]
    IN  IF ~e.decodes
        THEN goOn(z, z.next + 1, z.files,
                  [z.stats EXCEPT !.errors = Append(@, "Error processing " \o e.name
                                       \o ": " \o e.message),
                                  !.skippedFiles = @ + 1])
        ELSE IF e.bytes > MAX_FILE_SIZE
        THEN goOn(z, z.next + 1, z.files,
                  [z.stats EXCEPT !.errors = Append(@, "File " \o e.name
                                       \o " exceeds maximum size (10MB)"),
                                  !.skippedFiles = @ + 1])
        ELSE goOn(z, z.next + 1, Append(z.files, FileContent(e.name, e.text)),
                  [z.stats EXCEPT !.totalSize = @ + e.bytes, !.processedFiles = @ + 1])

\* processZipFile(file) up to the await of JSZip.loadAsync
processZipFileStart(upload) ==
    IF upload.size > MAX_TOTAL_SIZE
    THEN [phase |-> "rejected", entries |-> <<>>, next |-> 0, files |-> <<>>,
          stats |-> NewStats,
          error |-> "File size exceeds maximum allowed size of 50MB"]
    ELSE [phase |-> "loading", upload |-> upload]

\* a caller calls processZipFile(file)
SelectArchive ==
    /\ zip.phase \in {"idle", "resolved", "rejected"}
    /\ \E upload \in Uploads : zip' = processZipFileStart(upload)
    /\ UNCHANGED <<files, rules, result, passes, lastIndex, phase, report, catalog, calls, home>>

\* JSZip.loadAsync settled: the archive is refused, or the loop starts
LoadSettled ==
    /\ zip.phase = "loading"
    /\ zip' = LET start == [entries |-> zip.upload.entries, next |-> 0, files |-> <<>>,
                            stats |-> [NewStats EXCEPT !.totalFiles = zip.upload.length]]
              IN  IF ~zip.upload.loads
                  THEN rejected([start EXCEPT !.stats = NewStats],
                                "Failed to process zip file: Corrupted zip")
                  ELSE IF zip.upload.length > MAX_FILES
                  THEN rejected(start, "Failed to process zip file: Archive contains too many files ("
                                          \o String(zip.upload.length) \o "). Maximum allowed: "
                                          \o String(MAX_FILES))
                  ELSE goOn(start, 1, <<>>, start.stats)
    /\ UNCHANGED <<files, rules, result, passes, lastIndex, phase, report, catalog, calls, home>>

\* zipEntry.async('text') settled for the entry the loop waits on
DecodeSettled ==
    /\ zip.phase = "decoding"
    /\ zip' = afterDecode(zip)
    /\ UNCHANGED <<files, rules, result, passes, lastIndex, phase, report, catalog, calls, home>>

NextZip == SelectArchive \/ LoadSettled \/ DecodeSettled

SpecZip == Init /\ [][NextZip]_vars

(***************************************************************************)
(* contextual-analyzer: getContext on its own.  A detector asks for the    *)
(* window of half-width w around the line of index i (from 0, as in the    *)
(* source) of a file of up to MaxLines lines; calls keeps the request and  *)
(* the text returned.                                                      *)
(***************************************************************************)
MaxLines == 6

MaxWidth == 4

\* a file of n lines, each different from the others
NumberedLines(n) == Tup([k \in 1..n |-> "line " \o String(k)])

AskContext ==
    /\ calls = <<>>
    /\ \E n \in 1..MaxLines, w \in 0..MaxWidth :
          \E i \in 0..(n - 1) :
             calls' = << [fn |-> "getContext", lines |-> NumberedLines(n), i |-> i, w |-> w,
                          returned |-> getContext(NumberedLines(n), i + 1, w)] >>
    /\ UNCHANGED <<files, rules, result, passes, lastIndex, phase, report, catalog, zip, home>>

\* the detector goes on to its next line
DropContext ==
    /\ calls # <<>>
    /\ calls' = <<>>
    /\ UNCHANGED <<files, rules, result, passes, lastIndex, phase, report, catalog, zip, home>>

NextContext == AskContext \/ DropContext

SpecContext == Init /\ [][NextContext]_vars

(***************************************************************************)
(* Rule selections: the caller analyses the same file list several times,  *)
(* each time with a rule list of its choice: none, the catalog, the rules  *)
(* of a level, the rules of a category.  calls keeps the list of ids       *)
(* handed over and the findings returned.                                  *)
(***************************************************************************)
RuleSelections ==
    { <<>>, catalog, getASVSLevelRules(1), getRulesByCategory("Cryptography") }

\* the caller's file list: one record of the corpus
AddSource ==
    /\ phase = "ready"
    /\ files = <<>>
    /\ \E file \in FileCorpus : files' = <<file>>
    /\ UNCHANGED <<rules, result, passes, lastIndex, phase, report, catalog, calls, zip, home>>

\* the call analyzeCode(files, rs)
AnalyzeSelected ==
    /\ phase = "ready"
    /\ files # <<>>
    /\ Len(calls) < MaxCalls
    /\ \E rs \in RuleSelections :
          \E run \in {analyzeCode(files, rs, lastIndex)} :
             /\ rules' = rs
             /\ result' = run.result
             /\ passes' = [contextualFindings |-> run.contextualFindings,
                           patternFindings |-> run.patternFindings]
             /\ lastIndex' = run.lastIndex
             /\ calls' = Append(calls, [fn |-> "analyzeCode", files |-> files,
                                        rules |-> Tup([k \in 1..Len(rs) |-> rs[k].id]),
                                        returned |-> run.result.findings])
    /\ phase' = "done"
    /\ UNCHANGED <<files, report, catalog, zip, home>>

\* the caller keeps its file list for another call
SelectAgain ==
    /\ phase = "done"
    /\ result' = NoResult
    /\ passes' = NoPasses
    /\ phase' = "ready"
    /\ UNCHANGED <<files, rules, lastIndex, report, catalog, calls, zip, home>>

NextRules == AddSource \/ AnalyzeSelected \/ SelectAgain

SpecRules == Init /\ [][NextRules]_vars

(***************************************************************************)
(* page: the Home component.  Its state is the four useState values; a     *)
(* call of handleFileSelect runs from one await to the next: up to the     *)
(* await of processZipFile, then up to the await of the 500 ms timer, then *)
(* to its end.  The updates made between two awaits are rendered together. *)
(* The steps of processZipFile are those of LoadSettled and DecodeSettled. *)
(***************************************************************************)
\* formatFileSize(bytes), for sizes below 1024 GB; the quotient is rounded to
\* hundredths and printed without trailing zeros
formatFileSize(bytes) ==
    LET k == 1024
        unit(i) == CASE i = 0 -> "Bytes" [] i = 1 -> "KB" [] i = 2 -> "MB" [] i = 3 -> "GB"
        print(hundredths, i) ==
          String(hundredths \div 100)
             \o (IF hundredths % 100 = 0 THEN ""
                 ELSE IF hundredths % 10 = 0 THEN "." \o String((hundredths % 100) \div 10)
                 ELSE "." \o String((hundredths % 100) \div 10) \o String(hundredths % 10))
             \o " " \o unit(i)
        scaled(i, power) == print((2 * bytes * 100 + power) \div (2 * power), i)
    IN  IF bytes = 0 THEN "0 Bytes"
        ELSE IF bytes < k THEN scaled(0, 1)
        ELSE IF bytes < k * k THEN scaled(1, k)
        ELSE IF bytes < k * k * k THEN scaled(2, k * k)
        ELSE scaled(3, k * k * k)

\* the archives the page is given: those of fewer than MaxEntries entries and
\* the files processZipFile refuses
HomeUploads == {upload \in Uploads : upload.length # MaxEntries}

\* a variant that hands files to handleFileSelect in every state of the page
canSelectFileInAnyState(h) == TRUE

\* FileUpload, whose onFileSelect is handleFileSelect, is rendered in state idle only
canSelectFile(h) == h.state = "idle"

\* the buttons "Analyze Another Project" and "Try Again"
canReset(h) == (h.state = "complete" /\ h.result # NoResult) \/ h.state = "error"

\* handleFileSelect(file) up to the await of processZipFile(file)
HandleFileSelect ==
    /\ canSelectFile(home)
    /\ \E upload \in HomeUploads :
          /\ zip' = processZipFileStart(upload)
          /\ home' = [state |-> "processing", progress |-> "Extracting files from archive...",
                      result |-> NoResult, error |-> "", at |-> "processZipFile",
                      inFlight |-> home.inFlight + 1]
    /\ UNCHANGED <<files, rules, result, passes, lastIndex, phase, report, catalog, calls>>

\* a variant without the catch: a rejection ends the call and leaves the page as it is
afterArchiveWithoutCatch(h, z) ==
    IF z.phase = "resolved"
    THEN [h EXCEPT !.progress = "Extracted " \o String(z.stats.processedFiles) \o " files ("
                                   \o formatFileSize(z.stats.totalSize) \o "). Analyzing code...",
                   !.at = "timer"]
    ELSE [h EXCEPT !.at = "none", !.inFlight = @ - 1]

\* the page once the promise of processZipFile settled: the progress message
\* and the timer, or the catch
afterArchive(h, z) ==
    IF z.phase = "resolved"
    THEN [h EXCEPT !.progress = "Extracted " \o String(z.stats.processedFiles) \o " files ("
                                   \o formatFileSize(z.stats.totalSize) \o "). Analyzing code...",
                   !.at = "timer"]
    ELSE [h EXCEPT !.error = z.error, !.state = "error", !.at = "none", !.inFlight = @ - 1]

\* handleFileSelect resumes after the await of processZipFile
ArchiveSettled ==
    /\ home.at = "processZipFile"
    /\ zip.phase \in {"resolved", "rejected"}
    /\ home' = afterArchive(home, zip)
    /\ files' = IF zip.phase = "resolved" THEN zip.files ELSE files
    /\ UNCHANGED <<rules, result, passes, lastIndex, phase, report, catalog, calls, zip>>

\* the file lists processZipFile can return: the entries it decodes and keeps,
\* in any order
ReturnableFileLists ==
    LET kept == {e \in EntryKinds : /\ ~e.dir /\ ~isHidden(e.name) /\ ~isBuildPath(e.name)
                                    /\ e.decodes /\ e.bytes <= MAX_FILE_SIZE}
        orders(n) == {a \in [1..n -> kept] : \A i, j \in 1..n : a[i] = a[j] => i = j}
    IN  UNION { {Tup([k \in 1..n |-> FileContent(a[k].name, a[k].text)]) : a \in orders(n)} :
                  n \in 0..Cardinality(kept) }

\* what analyzeCode returns for each of these lists with the catalog, the
\* patterns' lastIndex at 0: worked out once
AnalysisTable ==
    { <<fs, analyzeCode(fs, asvsRules, FreshLastIndex)>> : fs \in ReturnableFileLists }

\* analyzeCode(fs, rs, li), read from the table where the table has it
analyzeCodeOnce(fs, rs, li) ==
    IF rs = asvsRules /\ li = FreshLastIndex /\ fs \in ReturnableFileLists
    THEN (CHOOSE row \in AnalysisTable : row[1] = fs)[2]
    ELSE analyzeCode(fs, rs, li)

\* the timer fired: analyzeCode(files, asvsRules), then the result is shown
TimerFired ==
    /\ home.at = "timer"
    /\ \E run \in {analyzeCodeOnce(files, catalog, lastIndex)} :
          /\ result' = run.result
          /\ passes' = [contextualFindings |-> run.contextualFindings,
                        patternFindings |-> run.patternFindings]
          /\ lastIndex' = run.lastIndex
          /\ home' = [home EXCEPT !.progress = "Analysis complete!", !.result = run.result,
                                  !.state = "complete", !.at = "none", !.inFlight = @ - 1]
    /\ rules' = catalog
    /\ phase' = "done"
    /\ UNCHANGED <<files, report, catalog, calls, zip>>

\* handleReset
HandleReset ==
    /\ canReset(home)
    /\ home' = [home EXCEPT !.state = "idle", !.progress = "", !.result = NoResult,
                            !.error = ""]
    /\ UNCHANGED <<files, rules, result, passes, lastIndex, phase, report, catalog, calls, zip>>

NextHome ==
    \/ HandleFileSelect \/ LoadSettled \/ DecodeSettled
    \/ ArchiveSettled \/ TimerFired \/ HandleReset

SpecHome == Init /\ [][NextHome]_vars

\* the continuation of an await runs once its promise has settled, and the
\* timer fires: the event loop leaves neither waiting for ever
SpecHomeFair == SpecHome /\ WF_vars(ArchiveSettled) /\ WF_vars(TimerFired)

(***************************************************************************)
(* Properties of analyzeCode's result.  In a state of phase "done", result *)
(* is what analyzeCode(files, rules) returned and passes holds what each   *)
(* pass pushed.                                                            *)
(***************************************************************************)
Returned == phase = "done"

\* the rank of a severity in the result's order
SeverityRank(sev) ==
    CASE sev = "critical" -> 0 [] sev = "high" -> 1 [] sev = "medium" -> 2 [] sev = "low" -> 3

\* the rule ids the five contextual detectors emit
ContextualIds == {"V5.1.1", "V5.1.2", "V5.3.1", "V5.3.3", "V2.1.1"}

IdsOf(findings) == {findings[k].rule.id : k \in 1..Len(findings)}

\* a and b hold the same elements, each as many times
IsPermutation(a, b) ==
    /\ Len(a) = Len(b)
    /\ \A k \in 1..Len(a) : Count(a, a[k]) = Count(b, a[k])

\* C1 (count invariant): in every result analyzeCode returns, the four
\* severityCounts sum to totalFindings, the categoryCounts sum to totalFindings,
\* and totalFindings is the length of findings.
C1_CountInvariant ==
    Returned =>
        /\ result.severityCounts.critical + result.severityCounts.high
              + result.severityCounts.medium + result.severityCounts.low
           = result.totalFindings
        /\ Sum(Tup([k \in 1..Len(result.categoryCounts) |-> result.categoryCounts[k].count]))
           = result.totalFindings
        /\ result.totalFindings = Len(result.findings)

\* a result with findings of all four severities and of several categories
C1_Witness ==
    /\ Returned
    /\ result.severityCounts.critical > 0 /\ result.severityCounts.high > 0
    /\ result.severityCounts.medium > 0 /\ result.severityCounts.low > 0
    /\ Len(result.categoryCounts) >= 3
    /\ \E k \in 1..Len(result.categoryCounts) : result.categoryCounts[k].count >= 2

\* C2 (sort invariant): in every result, findings is ordered by severity rank:
\* for all positions i < j, rank(findings[i]) <= rank(findings[j]).
C2_SortInvariant ==
    Returned =>
        \A i, j \in 1..Len(result.findings) :
            i < j => SeverityRank(result.findings[i].rule.severity)
                        <= SeverityRank(result.findings[j].rule.severity)

\* a result of three ranks or more, whose findings were pushed in another order
C2_Witness ==
    /\ Returned
    /\ Cardinality({result.findings[k].rule.severity : k \in 1..Len(result.findings)}) >= 3
    /\ LET pushed == passes.contextualFindings \o passes.patternFindings
       IN  \E i, j \in 1..Len(pushed) :
              i < j /\ SeverityRank(pushed[i].rule.severity)
                          > SeverityRank(pushed[j].rule.severity)

\* C3 (mutual exclusion): whatever the rules list, no finding of the pattern
\* matcher carries one of the five ids of the contextual detectors, every
\* finding of the contextual analyzer carries one of them, and so no rule id
\* is in the output of both passes.
C3_MutualExclusion ==
    Returned =>
        /\ IdsOf(passes.patternFindings) \cap ContextualIds = {}
        /\ IdsOf(passes.contextualFindings) \subseteq ContextualIds
        /\ IdsOf(passes.patternFindings) \cap IdsOf(passes.contextualFindings) = {}

\* a scan whose rules list holds a rule of a contextual id, over a file that
\* its pattern matches, with findings from both passes
C3_Witness ==
    /\ Returned
    /\ passes.patternFindings # <<>>
    /\ \E r \in 1..Len(rules), f \in 1..Len(files) :
          /\ rules[r].id \in ContextualIds
          /\ isCodeFile(files[f].path)
          /\ \E l \in 1..Len(split(files[f].content)) :
                matchAll(rules[r].pattern, split(files[f].content)[l]) # <<>>
          /\ rules[r].id \in IdsOf(passes.contextualFindings)

\* C4 (no finding dropped): result.findings is a permutation of the contextual
\* analyzer's findings followed by the pattern matcher's, and totalFindings is
\* the sum of the two passes' counts.
C4_NoFindingDropped ==
    Returned =>
        /\ IsPermutation(result.findings,
                         passes.contextualFindings \o passes.patternFindings)
        /\ result.totalFindings
           = Len(passes.contextualFindings) + Len(passes.patternFindings)

\* both passes pushed findings, two of them for one rule on one line, and the
\* sort moved some
C4_Witness ==
    /\ Returned
    /\ passes.contextualFindings # <<>>
    /\ \E i, j \in 1..Len(passes.patternFindings) :
          /\ i < j
          /\ passes.patternFindings[i].rule.id = passes.patternFindings[j].rule.id
          /\ passes.patternFindings[i].file = passes.patternFindings[j].file
          /\ passes.patternFindings[i].line = passes.patternFindings[j].line
    /\ result.findings # passes.contextualFindings \o passes.patternFindings

\* C5 (determinism, no cross-scan state): each call returns what a call with
\* the same files and rules returns when no scan ran before it (the patterns
\* as new), leaves the rule patterns as it would find them new, and leaves
\* the file records and the rules as they were.
C5_Determinism ==
    [][phase = "ready" /\ phase' = "done" =>
          /\ result' = analyzeCode(files, rules, FreshLastIndex).result
          /\ lastIndex' = FreshLastIndex
          /\ files' = files
          /\ rules' = rules]_vars

\* a scan in which a rule's g pattern matched inside a line, the match that
\* pattern.exec or pattern.test would remember in lastIndex
C5_Witness ==
    /\ Returned
    /\ passes.contextualFindings # <<>>
    /\ \E k \in 1..Len(passes.patternFindings) :
          /\ passes.patternFindings[k].rule.pattern.g
          /\ passes.patternFindings[k].match # passes.patternFindings[k].code

\* the position of a path in the file list, of a rule id in the rules list,
\* and of a contextual id's detector in performContextualAnalysis
FileIndex(path) == Min({k \in 1..Len(files) : files[k].path = path})

RuleIndex(id) == Min({k \in 1..Len(rules) : rules[k].id = id})

DetectorIndex(id) ==
    CASE id = "V5.1.1" -> 1 [] id = "V5.1.2" -> 2 [] id = "V5.3.1" -> 3
      [] id = "V2.1.1" -> 4 [] id = "V5.3.3" -> 5

LexLeq(a, b) ==
    \/ a[1] < b[1]
    \/ a[1] = b[1] /\ a[2] < b[2]
    \/ a[1] = b[1] /\ a[2] = b[2] /\ a[3] <= b[3]

PatternKey(f) == <<FileIndex(f.file), RuleIndex(f.rule.id), f.line>>

ContextualKey(f, detectorFirst) ==
    IF detectorFirst THEN <<DetectorIndex(f.rule.id), FileIndex(f.file), f.line>>
    ELSE <<FileIndex(f.file), DetectorIndex(f.rule.id), f.line>>

\* among findings of equal severity: contextual findings before pattern
\* findings, pattern findings by (file, rule, line), contextual findings by
\* (detector, file, line) or by (file, detector, line)
TieOrder(detectorFirst) ==
    \A i, j \in 1..Len(result.findings) :
        LET a == result.findings[i]
            b == result.findings[j]
        IN  (i < j /\ a.rule.severity = b.rule.severity) =>
               /\ ~(a.rule.id \notin ContextualIds /\ b.rule.id \in ContextualIds)
               /\ (a.rule.id \notin ContextualIds /\ b.rule.id \notin ContextualIds)
                     => LexLeq(PatternKey(a), PatternKey(b))
               /\ (a.rule.id \in ContextualIds /\ b.rule.id \in ContextualIds)
                     => LexLeq(ContextualKey(a, detectorFirst),
                               ContextualKey(b, detectorFirst))

\* C6 (stable tie order), as amended: among findings of equal severity,
\* result.findings keeps insertion order: contextual findings before pattern
\* findings; pattern findings file by file, then rule by rule, then line by
\* line; contextual findings file by file, then detector by detector, then
\* line by line.
C6_StableTieOrder == Returned => TieOrder(FALSE)

\* C6 as stated: the same, with contextual findings detector by detector,
\* then file by file, then line by line.
C6_AsStated == Returned => TieOrder(TRUE)

\* equal-severity findings of two detectors in two files, the later detector
\* in the earlier file; a contextual and a pattern finding of one severity;
\* pattern findings of one file and severity whose rule order is not their
\* line order
C6_Witness ==
    /\ Returned
    /\ \E i, j \in 1..Len(result.findings) :
          LET a == result.findings[i]
              b == result.findings[j]
          IN  /\ i < j /\ a.rule.severity = b.rule.severity
              /\ a.rule.id \in ContextualIds /\ b.rule.id \in ContextualIds
              /\ FileIndex(a.file) < FileIndex(b.file)
              /\ DetectorIndex(a.rule.id) > DetectorIndex(b.rule.id)
    /\ \E i, j \in 1..Len(result.findings) :
          /\ i < j
          /\ result.findings[i].rule.severity = result.findings[j].rule.severity
          /\ result.findings[i].rule.id \in ContextualIds
          /\ result.findings[j].rule.id \notin ContextualIds
    /\ \E i, j \in 1..Len(result.findings) :
          LET a == result.findings[i]
              b == result.findings[j]
          IN  /\ i < j /\ a.rule.severity = b.rule.severity
              /\ a.rule.id \notin ContextualIds /\ b.rule.id \notin ContextualIds
              /\ a.file = b.file
              /\ RuleIndex(a.rule.id) < RuleIndex(b.rule.id)
              /\ a.line > b.line

\* the findings of the result for a rule id at a line of a file
FindingsAt(id, path, line) ==
    SelectSeq(result.findings,
              LAMBDA f : f.rule.id = id /\ f.file = path /\ f.line = line)

\* the pattern a contextual detector looks a line up with
DetectorPattern(id) ==
    CASE id = "V5.1.1" -> sqlPattern [] id = "V5.1.2" -> cmdPattern
      [] id = "V5.3.1" -> xssPattern [] id = "V2.1.1" -> credPattern
      [] id = "V5.3.3" -> evalPattern

\* the detectors that look a line up with match() and push once
OnePerLineIds == {"V5.1.1", "V5.1.2", "V5.3.1", "V5.3.3"}

\* the paths of the corpus that end in no code extension
NonCodePaths == {"Gemfile", "docs/README.md"}

\* the lines of the code files, as <<path, line number, text>>
CodeLines ==
    UNION {{<<files[f].path, l, split(files[f].content)[l]>> :
               l \in 1..Len(split(files[f].content))} :
           f \in {k \in 1..Len(files) : files[k].path \notin NonCodePaths}}

\* C7 (one finding per match), as amended: a line with k non-overlapping
\* matches of a pattern-matcher rule yields k findings for that (rule, file,
\* line); the hardcoded-credential detector yields one finding for each match
\* it does not filter out, k at most; the SQL injection, command injection,
\* XSS and eval detectors yield one finding at most for a line, whatever k.
C7_OneFindingPerMatch ==
    Returned =>
        \A cl \in CodeLines :
            /\ \A r \in 1..Len(rules) :
                  rules[r].id \notin ContextualIds =>
                     Len(FindingsAt(rules[r].id, cl[1], cl[2]))
                        = Len(matchAll(rules[r].pattern, cl[3]))
            /\ \A id \in OnePerLineIds : Len(FindingsAt(id, cl[1], cl[2])) <= 1
            /\ LET creds == FindingsAt("V2.1.1", cl[1], cl[2])
                   found == matchAll(credPattern, cl[3])
               IN  /\ Len(creds) <= Len(found)
                   /\ \A k \in 1..Len(creds) :
                         \E m \in 1..Len(found) : creds[k].match = trim(found[m])

\* C7 as stated, for the detectors that push once: a line they report, with
\* k matches of their pattern, yields k findings.
C7_AsStated ==
    Returned =>
        \A cl \in CodeLines :
            \A id \in OnePerLineIds :
                Len(FindingsAt(id, cl[1], cl[2])) > 0 =>
                   Len(FindingsAt(id, cl[1], cl[2]))
                      = Len(matchAll(DetectorPattern(id), cl[3]))

\* a line with two matches of a pattern-matcher rule and two findings, a line
\* with two credential matches and two findings, and a line with two eval
\* matches and one finding
C7_Witness ==
    /\ Returned
    /\ \E cl \in CodeLines, r \in 1..Len(rules) :
          /\ rules[r].id \notin ContextualIds
          /\ Len(matchAll(rules[r].pattern, cl[3])) = 2
          /\ Len(FindingsAt(rules[r].id, cl[1], cl[2])) = 2
    /\ \E cl \in CodeLines :
          /\ Len(matchAll(credPattern, cl[3])) = 2
          /\ Len(FindingsAt("V2.1.1", cl[1], cl[2])) = 2
    /\ \E cl \in CodeLines :
          /\ Len(matchAll(evalPattern, cl[3])) = 2
          /\ Len(FindingsAt("V5.3.3", cl[1], cl[2])) = 1

\* the line count of a text as the code takes it, and its lines of text
SegmentCount(content) == Cardinality({p \in 1..Len(content) : Ch(content, p) = "\n"}) + 1

LinesOfText(content) ==
    IF content = "" \/ Ch(content, Len(content)) = "\n" THEN SegmentCount(content) - 1
    ELSE SegmentCount(content)

\* C8 (files that are no code files): a file whose path ends in no recognized
\* code extension contributes no finding of either pass and is not counted in
\* totalFiles, totalLines or languageStats (the result is, but for frameworks,
\* the result of the scan without it), and its name and content are still
\* used by framework detection.
C8_NonCodeFilesExcluded ==
    Returned =>
        LET code == SelectSeq(files, LAMBDA file : file.path \notin NonCodePaths)
        IN  /\ \A k \in 1..Len(result.findings) : result.findings[k].file \notin NonCodePaths
            /\ \A k \in 1..Len(passes.contextualFindings) :
                  passes.contextualFindings[k].file \notin NonCodePaths
            /\ \A k \in 1..Len(passes.patternFindings) :
                  passes.patternFindings[k].file \notin NonCodePaths
            /\ result.totalFiles = Len(code)
            /\ result.totalLines
               = Sum(Tup([k \in 1..Len(code) |-> SegmentCount(code[k].content)]))
            /\ Sum(Tup([k \in 1..Len(result.languageStats) |-> result.languageStats[k].files]))
               = Len(code)
            /\ Sum(Tup([k \in 1..Len(result.languageStats) |-> result.languageStats[k].lines]))
               = result.totalLines
            /\ [result EXCEPT !.frameworks = <<>>]
               = [analyzeCode(code, rules, FreshLastIndex).result EXCEPT !.frameworks = <<>>]
            /\ (\E k \in 1..Len(files) : files[k].path = "Gemfile")
                  => \E w \in 1..Len(result.frameworks) :
                        result.frameworks[w] = [name |-> "Ruby on Rails", confidence |-> "high"]
            /\ (\E k \in 1..Len(files) : files[k].path = "docs/README.md")
                  => \E w \in 1..Len(result.frameworks) :
                        result.frameworks[w] = [name |-> "Flask", confidence |-> "medium"]

\* a scan of a code file with findings and of a file that is no code file,
\* whose lines match a rule of the list and the credential pattern and whose
\* name gives a framework
C8_Witness ==
    /\ Returned
    /\ result.findings # <<>>
    /\ \E f \in 1..Len(files) :
          /\ files[f].path \in NonCodePaths
          /\ LET lines == split(files[f].content)
             IN  /\ \E l \in 1..Len(lines) : matchAll(credPattern, lines[l]) # <<>>
                 /\ \E l \in 1..Len(lines), r \in 1..Len(rules) :
                       /\ rules[r].id \notin ContextualIds
                       /\ matchAll(rules[r].pattern, lines[l]) # <<>>
    /\ result.frameworks # <<>>

\* C9 (language percentage): in every result, the languageStats percentages
\* sum to 100 within 0.01 whenever totalLines > 0, and languageStats is empty
\* whenever totalLines = 0.
C9_LanguagePercentage ==
    Returned =>
        LET total == Sum(Tup([k \in 1..Len(result.languageStats) |->
                                result.languageStats[k].percentage]))
        IN  /\ result.totalLines > 0 =>
                  /\ total - 100 * PctScale <= PctScale \div 100
                  /\ 100 * PctScale - total <= PctScale \div 100
            /\ result.totalLines = 0 => result.languageStats = <<>>

\* a result of two languages or more whose percentages are no whole numbers
C9_Witness ==
    /\ Returned
    /\ result.totalLines > 0
    /\ Len(result.languageStats) >= 2
    /\ \E k \in 1..Len(result.languageStats) :
          result.languageStats[k].percentage % PctScale # 0

\* a scan of files without a code file among them: no line is counted
C9_WitnessNoLines ==
    /\ Returned
    /\ files # <<>>
    /\ result.totalLines = 0

\* the input of scenario D: two code files of different languages, one of 80
\* lines of text and one of 20
ScenarioInput ==
    /\ Len(files) = 2
    /\ getLanguageFromFile(files[1].path) # getLanguageFromFile(files[2].path)
    /\ {LinesOfText(files[1].content), LinesOfText(files[2].content)} = {80, 20}

\* C10 (scenario D): for two code files of different languages, one of 80
\* lines of text and one of 20, analyzeCode returns languageStats with the
\* percentages 80 and 20 and totalLines 100, the language of 80% first.
C10_ScenarioD ==
    (Returned /\ ScenarioInput) =>
        /\ result.totalLines = 100
        /\ Len(result.languageStats) = 2
        /\ result.languageStats[1].percentage = 80 * PctScale
        /\ result.languageStats[2].percentage = 20 * PctScale
        /\ \E k \in 1..2 :
              /\ LinesOfText(files[k].content) = 80
              /\ result.languageStats[1].language = getLanguageFromFile(files[k].path)

\* the scenario's input with no newline after the last lines, where the
\* result is the scenario's
C10_Witness ==
    /\ Returned /\ ScenarioInput
    /\ result.totalLines = 100
    /\ result.languageStats[1].percentage = 80 * PctScale
    /\ result.languageStats[2].percentage = 20 * PctScale

\* the scenario's input with a newline after each last line, where 81 and 21
\* lines are counted
C10_Divergence ==
    /\ Returned /\ ScenarioInput
    /\ result.totalLines = 102
    /\ result.languageStats[1].lines = 81
    /\ result.languageStats[2].lines = 21
    /\ result.languageStats[1].percentage # 80 * PctScale

\* the position of a rule id in the catalog as written
CatalogIndex(id) == Min({k \in 1..Len(asvsRules) : asvsRules[k].id = id})

\* the calls of getASVSLevelRules made so far
LevelCalls == {c \in 1..Len(calls) : calls[c].fn = "getASVSLevelRules"}

\* C11 (level filter): getASVSLevelRules(L) returns exactly the catalog rules
\* of level <= L, in catalog order; for L1 <= L2 every rule returned for L1 is
\* returned for L2; and the catalog is as it was written after any lookups.
C11_LevelFilter ==
    /\ catalog = asvsRules
    /\ \A c \in LevelCalls :
          LET got == calls[c].returned
          IN  /\ \A k \in 1..Len(asvsRules) :
                    (asvsRules[k].level <= calls[c].level)
                       <=> (\E g \in 1..Len(got) : got[g] = asvsRules[k])
              /\ \A g \in 1..Len(got) : got[g] = asvsRules[CatalogIndex(got[g].id)]
              /\ \A g, h \in 1..Len(got) :
                    g < h => CatalogIndex(got[g].id) < CatalogIndex(got[h].id)
    /\ \A c, d \in LevelCalls :
          calls[c].level <= calls[d].level =>
             \A g \in 1..Len(calls[c].returned) :
                \E h \in 1..Len(calls[d].returned) : calls[d].returned[h] = calls[c].returned[g]

\* two lookups, of level 1 and of level 2, the second returning more rules
C11_Witness ==
    \E c, d \in LevelCalls :
        /\ calls[c].level = 1 /\ calls[d].level = 2
        /\ calls[c].returned # <<>>
        /\ Len(calls[c].returned) < Len(calls[d].returned)
        /\ Len(calls[d].returned) = Len(asvsRules)

\* the lines of the scanned source file of a snippet scan
ScannedLines == split(files[1].content)

\* the lines within `size` lines of line l, joined: the context window
WindowAt(lines, l, size) ==
    join(SubSeq(lines, Max({1, l - size}), Min({Len(lines), l + size})))

\* the line of scenario B
ScenarioBLine == "query(\"SELECT * FROM t WHERE id=\" + req.query.id)"

\* the four conditions of the SQL injection detector at line l
SqlInjectionExpected(lines, l) ==
    LET window == WindowAt(lines, l, 10)
        concat == matchFirst(sqlConcatPattern, lines[l])
    IN  /\ matchAll(sqlPattern, lines[l]) # <<>>
        /\ ~isSanitized(window)
        /\ concat.index # 0
        /\ isUserInput(window, Group(lines[l], concat, 1))

\* C12 (SQL injection detector): a line has a finding of id V5.1.1 if and only
\* if it matches the trigger, its window is not sanitized, a concatenated
\* variable is extracted and isUserInput holds for it in the window; the
\* finding is critical and titled "SQL Injection Risk"; the line of scenario B
\* yields exactly one finding, and none when `.prepare(` is in the window.
C12_SqlInjectionDetector ==
    (Returned /\ Len(files) = 1) =>
        \A l \in 1..Len(ScannedLines) :
            LET got == FindingsAt("V5.1.1", files[1].path, l)
            IN  /\ (got # <<>>) <=> SqlInjectionExpected(ScannedLines, l)
                /\ \A g \in 1..Len(got) :
                      /\ got[g].rule.severity = "critical"
                      /\ got[g].rule.title = "SQL Injection Risk"
                /\ ScannedLines[l] = ScenarioBLine =>
                      /\ ~isSanitized(files[1].content) => Len(got) = 1
                      /\ includes(files[1].content, ".prepare(") => got = <<>>

\* the scan of the line of scenario B with no sanitizer near it: one finding
C12_Witness ==
    /\ Returned /\ Len(files) = 1
    /\ \E l \in 1..Len(ScannedLines) :
          /\ ScannedLines[l] = ScenarioBLine
          /\ ~isSanitized(files[1].content)
          /\ Len(FindingsAt("V5.1.1", files[1].path, l)) = 1
    /\ result.severityCounts.critical = 1

\* the successive matches of the credential trigger on a line, left to right
RECURSIVE CredentialMatches(_, _)
CredentialMatches(line, from) ==
    LET next(m) == IF m.index = 0 THEN <<>> ELSE <<m>> \o CredentialMatches(line, m.end)
    IN  IF from > Len(line) THEN <<>>
        ELSE next(execFrom(credPattern, toLowerCase(line), line, from))

PlaceholderTokens ==
    {"test", "example", "demo", "placeholder", "xxx", "your_", "<", ">", "{", "$"}

EnvAccessors == {"process.env", "os.getenv", "env["}

\* the line starts with a capitalized identifier followed by an assignment
StartsWithCapitalizedAssignment(line) ==
    /\ line # ""
    /\ Ch(line, 1) \in CharsOf(UpperChars)
    /\ \E k \in 2..Len(line) :
          /\ Ch(line, k) = "="
          /\ \E j \in 1..(k - 1) :
                /\ \A p \in 2..j : Ch(line, p) \in WordChars
                /\ \A p \in (j + 1)..(k - 1) : Ch(line, p) \in {" ", "\t"}

\* the claim's rejection conditions for a matched literal value
CredentialRejected(lines, l, value) ==
    \/ Len(value) < 6
    \/ includes(value, ".") \/ includes(value, "/")
    \/ startsWith(value, "auth") \/ startsWith(value, "api")
    \/ \E token \in PlaceholderTokens : includes(toLowerCase(value), token)
    \/ \E accessor \in EnvAccessors : includes(toLowerCase(WindowAt(lines, l, 5)), accessor)
    \/ StartsWithCapitalizedAssignment(lines[l])

\* the matched texts of the trigger matches of line l that are not rejected
CredentialsExpected(lines, l) ==
    LET all  == CredentialMatches(lines[l], 1)
        kept == SelectSeq(all, LAMBDA m : ~CredentialRejected(lines, l, Group(lines[l], m, 2)))
    IN  Tup([k \in 1..Len(kept) |-> trim(Matched(lines[l], kept[k]))])

\* C13 (hardcoded-credential detector): the findings of id V2.1.1 at a line
\* are, in order, one per trigger match whose value is not rejected (shorter
\* than 6, contains '.' or '/', starts with 'auth' or 'api', holds a
\* placeholder token, an environment accessor in the window, a line starting
\* with a capitalized identifier assignment); each is critical and titled
\* "Hardcoded Credentials"; a rejected match does not suppress an accepted
\* one; `const password = "SuperSecret123";` with no environment read nearby
\* yields exactly one finding at its line.
C13_CredentialDetector ==
    (Returned /\ Len(files) = 1) =>
        \A l \in 1..Len(ScannedLines) :
            LET got == FindingsAt("V2.1.1", files[1].path, l)
            IN  /\ Tup([g \in 1..Len(got) |-> got[g].match]) = CredentialsExpected(ScannedLines, l)
                /\ \A g \in 1..Len(got) :
                      /\ got[g].rule.severity = "critical"
                      /\ got[g].rule.title = "Hardcoded Credentials"
                /\ ( /\ ScannedLines[l] = "const password = \"SuperSecret123\";"
                     /\ \A accessor \in EnvAccessors :
                           ~includes(toLowerCase(files[1].content), accessor) )
                      => Len(got) = 1

\* a scanned line with a rejected match (value "abc") followed by an accepted
\* one: exactly the accepted one is reported
C13_Witness ==
    /\ Returned /\ Len(files) = 1
    /\ \E l \in 1..Len(ScannedLines) :
          /\ Len(CredentialMatches(ScannedLines[l], 1)) = 2
          /\ Len(FindingsAt("V2.1.1", files[1].path, l)) = 1
          /\ FindingsAt("V2.1.1", files[1].path, l)[1].match = "token = \"abcdef123456\""

\* a standalone eval call with arguments on a line without JSON/parse words
DangerousEvalExpected(line) ==
    /\ test(evalPattern, line)
    /\ ~test(evalMethodPattern, line)
    /\ ~test(evalNoArgPattern, line)
    /\ ~includes(toLowerCase(line), "json")
    /\ ~includes(toLowerCase(line), "parse")

\* C14 (dangerous-eval detector): a line has a finding of id V5.3.3, a single
\* critical one, exactly when it holds a standalone eval call, is no method
\* call, no zero-argument call and mentions neither JSON nor parse;
\* `eval(userCode)` yields exactly one critical finding in the whole result;
\* `model.eval()`, `eval()` and a line mentioning parse yield none.
C14_DangerousEvalDetector ==
    (Returned /\ Len(files) = 1) =>
        \A l \in 1..Len(ScannedLines) :
            LET got == FindingsAt("V5.3.3", files[1].path, l)
            IN  /\ Len(got) = IF DangerousEvalExpected(ScannedLines[l]) THEN 1 ELSE 0
                /\ \A g \in 1..Len(got) : got[g].rule.severity = "critical"
                /\ ScannedLines[l] = "eval(userCode)" =>
                      /\ Len(got) = 1
                      /\ result.severityCounts.critical = 1
                      /\ Len(SelectSeq(result.findings,
                                       LAMBDA f : f.rule.severity = "critical")) = 1
                /\ ScannedLines[l] \in {"model.eval()", "eval()", "x = eval(data) // parse"} =>
                      result.findings = <<>>

\* the scan of `eval(userCode)`: one finding, critical, at its line
C14_Witness ==
    /\ Returned /\ Len(files) = 1
    /\ \E l \in 1..Len(ScannedLines) :
          /\ ScannedLines[l] = "eval(userCode)"
          /\ Len(result.findings) = 1
          /\ result.findings[1].rule.id = "V5.3.3"
          /\ result.findings[1].line = l
          /\ result.findings[1].rule.severity = "critical"

\* the variable the command-injection detector extracts from a line, or ""
CommandVariable(line) ==
    LET pick(m) == IF m.index = 0 THEN ""
                   ELSE IF Group(line, m, 1) # "" THEN Group(line, m, 1)
                   ELSE IF Group(line, m, 2) # "" THEN Group(line, m, 2)
                   ELSE Group(line, m, 3)
    IN  pick(matchFirst(cmdConcatPattern, line))

\* C20 (command-injection detector): a finding of id V5.1.2 at a line is
\* critical and is emitted only if the line matches the exec/spawn/system
\* trigger, a concatenated or interpolated variable is extracted from it,
\* isUserInput holds for that variable in the window and isSanitized does not
\* hold for the window.
C20_CommandInjectionDetector ==
    (Returned /\ Len(files) = 1) =>
        \A l \in 1..Len(ScannedLines) :
            LET got    == FindingsAt("V5.1.2", files[1].path, l)
                window == WindowAt(ScannedLines, l, 10)
            IN  \A g \in 1..Len(got) :
                   /\ got[g].rule.severity = "critical"
                   /\ test(cmdPattern, ScannedLines[l])
                   /\ CommandVariable(ScannedLines[l]) # ""
                   /\ isUserInput(window, CommandVariable(ScannedLines[l]))
                   /\ ~isSanitized(window)

\* the scan of an exec call interpolating a variable read from the request:
\* a command-injection finding is reported at its line
C20_Witness ==
    /\ Returned /\ Len(files) = 1
    /\ \E l \in 1..Len(ScannedLines) :
          /\ ScannedLines[l] = "exec(\"cat ${name}\");"
          /\ CommandVariable(ScannedLines[l]) = "name"
          /\ Len(FindingsAt("V5.1.2", files[1].path, l)) = 1

\* a file of the list has this base name
HasFileNamed(name) ==
    \E k \in 1..Len(files) : files[k].path = name \/ endsWith(files[k].path, "/" \o name)

\* the confidence the claim gives a framework for the scanned files, or "none"
ExpectedConfidence(fw) ==
    IF \E c \in 1..Len(fw.files) : HasFileNamed(fw.files[c]) THEN "high"
    ELSE IF \E q \in 1..Len(fw.patterns), k \in 1..Len(files) :
               test(fw.patterns[q], files[k].content)
         THEN (IF Len(fw.patterns) > 1 THEN "medium" ELSE "low")
         ELSE "none"

ConfidenceRank(confidence) ==
    CHOOSE r \in 1..3 : <<"high", "medium", "low">>[r] = confidence

\* C15 (detectFrameworks): a framework is listed with 'high' when a file
\* with one of its config file names is present; otherwise with 'medium'
\* (more than one content pattern) or 'low' (exactly one) when one of its
\* content patterns matches the files' content; otherwise it is not listed;
\* each framework is listed at most once and the list is ordered high, then
\* medium, then low.
C15_FrameworkConfidence ==
    Returned =>
        /\ \A n \in 1..Len(frameworkPatterns) :
              LET listed == SelectSeq(result.frameworks,
                                      LAMBDA fw : fw.name = frameworkPatterns[n].name)
                  expect == ExpectedConfidence(frameworkPatterns[n])
              IN  IF expect = "none" THEN listed = <<>>
                  ELSE Len(listed) = 1 /\ listed[1].confidence = expect
        /\ \A k \in 1..Len(result.frameworks) :
              \E n \in 1..Len(frameworkPatterns) :
                  result.frameworks[k].name = frameworkPatterns[n].name
        /\ \A i, j \in 1..Len(result.frameworks) :
              i < j => ConfidenceRank(result.frameworks[i].confidence)
                          <= ConfidenceRank(result.frameworks[j].confidence)

\* a project with a Gemfile, a Flask source and a dependencies file: Rails is
\* listed with high, then Flask with medium, then React and Next.js with low
C15_Witness ==
    /\ Returned
    /\ Len(result.frameworks) = 4
    /\ result.frameworks[1] = [name |-> "Ruby on Rails", confidence |-> "high"]
    /\ result.frameworks[2] = [name |-> "Flask", confidence |-> "medium"]
    /\ result.frameworks[3] = [name |-> "React", confidence |-> "low"]
    /\ result.frameworks[4] = [name |-> "Next.js", confidence |-> "low"]

\* a report has been downloaded for the result on display
Reported == phase = "done" /\ report # NoReport

\* the indices of the report's lines that are exactly `text`
LinesEqual(text) == {k \in 1..Len(report.lines) : report.lines[k] = text}

\* the indices of the report's lines that start with `prefix`
LinesFrom(prefix) == {k \in 1..Len(report.lines) : startsWith(report.lines[k], prefix)}

\* a line that tells the reader that nothing was found
IsSuccessMessage(line) ==
    /\ includes(toLowerCase(line), "no ")
    /\ \/ includes(toLowerCase(line), "issue")
       \/ includes(toLowerCase(line), "finding")
       \/ includes(toLowerCase(line), "vulnerabilit")

\* C16 (report of a clean scan): for a result with totalFindings = 0 the
\* report holds a "no issues found" message in place of the detailed
\* findings section.
C16_NoIssuesMessage ==
    (Reported /\ result.totalFindings = 0) =>
        /\ \E k \in 1..Len(report.lines) : IsSuccessMessage(report.lines[k])
        /\ LinesEqual("## Detailed Findings") = {}

\* a clean scan of a code file: the report ends with the header of the
\* detailed findings and no line of it says that nothing was found
C16_Divergence ==
    /\ Reported /\ result.totalFindings = 0 /\ result.totalFiles > 0
    /\ \A k \in 1..Len(report.lines) : ~IsSuccessMessage(report.lines[k])
    /\ LinesEqual("## Detailed Findings") # {}
    /\ LinesFrom("### ") = {}

\* C17 (no header for an empty section): the language breakdown, frameworks,
\* category summary and detailed findings headers are absent from the report
\* when languageStats, frameworks, categoryCounts or findings is empty.
C17_NoEmptySectionHeader ==
    Reported =>
        /\ result.languageStats = <<>> => LinesEqual("## Language Breakdown") = {}
        /\ result.frameworks = <<>> => LinesEqual("## Frameworks & Libraries Detected") = {}
        /\ result.categoryCounts = <<>> => LinesEqual("## Category Summary") = {}
        /\ result.findings = <<>> => LinesEqual("## Detailed Findings") = {}

\* the scan of a file that is no code file: no language, no framework, no
\* category and no finding, and the report has the headers of three of them
C17_Divergence ==
    /\ Reported
    /\ result.languageStats = <<>> /\ result.frameworks = <<>>
    /\ result.categoryCounts = <<>> /\ result.findings = <<>>
    /\ LinesEqual("## Language Breakdown") # {}
    /\ LinesEqual("## Category Summary") # {}
    /\ LinesEqual("## Detailed Findings") # {}
    /\ LinesEqual("## Frameworks & Libraries Detected") = {}

Only(S) == CHOOSE k \in S : TRUE

\* the places of the report's sections, in the order the claim gives them; the
\* frameworks section is there when frameworks were detected
SectionPlaces ==
    << LinesEqual("# ASVS Security Code Review Report"),
       LinesFrom("**Total Files Analyzed:** "),
       LinesFrom("**Total Lines of Code:** "),
       LinesFrom("**Total Findings:** "),
       LinesEqual("## Language Breakdown") >>
    \o (IF result.frameworks # <<>> THEN <<LinesEqual("## Frameworks & Libraries Detected")>>
        ELSE <<>>)
    \o << LinesEqual("## Severity Summary"),
          LinesEqual("## Category Summary"),
          LinesEqual("## Detailed Findings") >>

SeverityLabel(sev) ==
    CASE sev = "critical" -> "CRITICAL" [] sev = "high" -> "HIGH"
      [] sev = "medium" -> "MEDIUM" [] sev = "low" -> "LOW"

GroupKeys ==
    {<<result.findings[k].rule.severity, result.findings[k].rule.category>> :
        k \in 1..Len(result.findings)}

\* the places of the header of a group of the detailed findings
GroupPlaces(key) == LinesEqual("### [" \o SeverityLabel(key[1]) \o "] " \o key[2])

\* the place after the group that starts at line p
GroupEnd(p) == Min({h \in LinesFrom("### ") : h > p} \cup {Len(report.lines) + 1})

\* the order of the character codes, for texts of letters and spaces
CodeOrder == " ABCDEFGHIJKLMNOPQRSTUVWXYZabcdefghijklmnopqrstuvwxyz"

CodeOf(c) == Only({k \in 1..Len(CodeOrder) : Ch(CodeOrder, k) = c})

\* a comes before b in lexicographic order
LexBefore(a, b) ==
    \E k \in 1..(Min({Len(a), Len(b)}) + 1) :
        /\ SubSeq(a, 1, k - 1) = SubSeq(b, 1, k - 1)
        /\ \/ k > Len(a) /\ k <= Len(b)
           \/ k <= Len(a) /\ k <= Len(b) /\ CodeOf(Ch(a, k)) < CodeOf(Ch(b, k))

\* the findings the report lists, in its order: the place of each, its title
\* line, its file line and its line-number line
ListedFindings ==
    LET n == Len(report.lines)
        at(k) == IF k + 3 <= n
                 THEN <<k, report.lines[k], report.lines[k + 2], report.lines[k + 3]>>
                 ELSE <<k, report.lines[k], "", "">>
    IN  SelectSeq(Tup([k \in 1..n |-> at(k)]), LAMBDA e : startsWith(e[2], "#### "))

\* what the report lists between the places p and q
ListedBetween(p, q) ==
    LET inside == SelectSeq(ListedFindings, LAMBDA e : p < e[1] /\ e[1] < q)
    IN  Tup([k \in 1..Len(inside) |-> <<inside[k][2], inside[k][3], inside[k][4]>>])

\* the findings of a group, in the order of result.findings, as the report
\* writes them
FindingsOfGroup(key) ==
    LET own == SelectSeq(result.findings,
                         LAMBDA f : f.rule.severity = key[1] /\ f.rule.category = key[2])
    IN  Tup([k \in 1..Len(own) |->
               << "#### " \o own[k].rule.id \o ": " \o own[k].rule.title,
                  "- **File:** " \o Backquote \o own[k].file \o Backquote,
                  "- **Line:** " \o String(own[k].line) >>])

\* C18 (order of the report): the sections come in the order title, totals
\* of files, lines and findings, language breakdown, detected frameworks,
\* severity summary, category summary, detailed findings; the groups of the
\* detailed findings, one for each severity and category that has findings,
\* are ordered by severity (critical, high, medium, low) and within one
\* severity by category in lexicographic order; inside a group the findings
\* keep their order in result.findings.
C18_ReportOrder ==
    Reported =>
        /\ \A n \in 1..Len(SectionPlaces) : Cardinality(SectionPlaces[n]) = 1
        /\ \A n \in 1..(Len(SectionPlaces) - 1) :
              Only(SectionPlaces[n]) < Only(SectionPlaces[n + 1])
        /\ result.frameworks = <<>> => LinesEqual("## Frameworks & Libraries Detected") = {}
        /\ Cardinality(LinesFrom("### ")) = Cardinality(GroupKeys)
        /\ Len(ListedFindings) = Len(result.findings)
        /\ \A a \in GroupKeys :
              /\ Cardinality(GroupPlaces(a)) = 1
              /\ Only(GroupPlaces(a)) > Only(LinesEqual("## Detailed Findings"))
              /\ ListedBetween(Only(GroupPlaces(a)), GroupEnd(Only(GroupPlaces(a))))
                    = FindingsOfGroup(a)
        /\ \A a, b \in GroupKeys :
              ( \/ SeverityRank(a[1]) < SeverityRank(b[1])
                \/ SeverityRank(a[1]) = SeverityRank(b[1]) /\ LexBefore(a[2], b[2]) )
                 => Only(GroupPlaces(a)) < Only(GroupPlaces(b))

\* a report with frameworks, with two critical groups whose first findings
\* come in the other order in result.findings, and with a group of two findings
C18_Witness ==
    /\ Reported
    /\ result.frameworks # <<>>
    /\ Len(result.findings) = 6
    /\ result.findings[1].rule.category = "Input Validation"
    /\ result.findings[2].rule.category = "Authentication"
    /\ Only(LinesEqual("### [CRITICAL] Authentication"))
          < Only(LinesEqual("### [CRITICAL] Input Validation"))
    /\ Only(LinesEqual("### [HIGH] API Security")) < Only(LinesEqual("### [HIGH] Cryptography"))
    /\ Only(LinesEqual("### [HIGH] Cryptography")) < Only(LinesEqual("### [MEDIUM] Cryptography"))
    /\ LinesEqual("**2 findings**") # {}

\* an entry the loop hands to zipEntry.async('text')
Awaited(e) == ~e.dir /\ ~isHidden(e.name) /\ ~isBuildPath(e.name)

\* the awaited entries of the archive whose decode fails
FailedEntries == SelectSeq(zip.entries, LAMBDA e : Awaited(e) /\ ~e.decodes)

\* the awaited entries that decode, within the size limit
DecodedEntries ==
    SelectSeq(zip.entries, LAMBDA e : Awaited(e) /\ e.decodes /\ e.bytes <= MAX_FILE_SIZE)

\* C19 (a decode failure does not abort processZipFile): no call is rejected
\* once the loop over the entries has started; when the call resolves, each
\* entry whose decode failed is recorded in stats.errors and counted as
\* skipped, and the files returned are those of all the entries that
\* decoded, those after a failed entry included, in the archive's order.
C19_DecodeFailureIsolated ==
    /\ zip.phase = "rejected" => zip.next = 0 /\ zip.files = <<>>
    /\ zip.phase = "resolved" =>
          /\ \A k \in 1..Len(FailedEntries) :
                \E i \in 1..Len(zip.stats.errors) :
                    zip.stats.errors[i] = "Error processing " \o FailedEntries[k].name
                                             \o ": " \o FailedEntries[k].message
          /\ zip.files = Tup([k \in 1..Len(DecodedEntries) |->
                                FileContent(DecodedEntries[k].name, DecodedEntries[k].text)])
          /\ zip.stats.processedFiles = Len(DecodedEntries)
          /\ zip.stats.skippedFiles
                = Len(SelectSeq(zip.entries, LAMBDA e : ~e.dir)) - Len(DecodedEntries)
          /\ zip.stats.skippedFiles >= Len(FailedEntries)
          /\ zip.stats.totalFiles = Len(zip.entries)

\* an archive whose first entry fails to decode and whose two later entries
\* decode: the call resolved with both files, one error and one skipped entry
C19_Witness ==
    /\ zip.phase = "resolved"
    /\ Len(zip.entries) = 3
    /\ zip.entries[1].name = "img/logo.png" /\ ~zip.entries[1].decodes
    /\ zip.files = <<FileContent("src/app.js", "eval(userCode)"),
                     FileContent("README.md", "a shop")>>
    /\ zip.stats.errors = <<"Error processing img/logo.png: Corrupted zip : CRC32 mismatch">>
    /\ zip.stats.skippedFiles = 1
    /\ zip.stats.processedFiles = 2

\* the line holds .innerHTML or dangerouslySetInnerHTML, spaces and '='
HasDomHtmlAssignment(line) ==
    \E p \in 1..Len(line), word \in {".innerhtml", "dangerouslysetinnerhtml"} :
        /\ startsWith(SubSeq(toLowerCase(line), p, Len(line)), word)
        /\ \E q \in (p + Len(word))..Len(line) :
              /\ Ch(line, q) = "="
              /\ \A r \in (p + Len(word))..(q - 1) : Ch(line, r) \in SpaceChars

\* the variable the XSS detector extracts from a line, or ""
AssignedVariable(line) ==
    LET pick(m) == IF m.index = 0 THEN "" ELSE Group(line, m, 1)
    IN  pick(matchFirst(xssValuePattern, line))

\* C21 (XSS detector): a finding of id V5.3.1 at a line is of severity high
\* and is emitted only if the line holds a direct DOM HTML assignment, its
\* window is not sanitized, an assigned variable is extracted and isUserInput
\* holds for it in the window; a sanitizer signature anywhere in the window
\* suppresses the finding.
C21_XssDetector ==
    (Returned /\ Len(files) = 1) =>
        \A l \in 1..Len(ScannedLines) :
            LET got    == FindingsAt("V5.3.1", files[1].path, l)
                window == WindowAt(ScannedLines, l, 10)
            IN  /\ \A g \in 1..Len(got) :
                      /\ got[g].rule.severity = "high"
                      /\ HasDomHtmlAssignment(ScannedLines[l])
                      /\ AssignedVariable(ScannedLines[l]) # ""
                      /\ isUserInput(window, AssignedVariable(ScannedLines[l]))
                /\ isSanitized(window) => got = <<>>

\* the scan of an innerHTML assignment of a variable read from the request,
\* with no sanitizer near it: an XSS finding at its line
C21_Witness ==
    /\ Returned /\ Len(files) = 1
    /\ \E l \in 1..Len(ScannedLines) :
          /\ ScannedLines[l] = "el.innerHTML = name;"
          /\ AssignedVariable(ScannedLines[l]) = "name"
          /\ Len(FindingsAt("V5.3.1", files[1].path, l)) = 1
          /\ result.severityCounts.high = 1

\* the lines of the file whose index (from 0) is within w of i, in order
LinesWithin(lines, i, w) ==
    LET near == {j \in 0..(Len(lines) - 1) : j - i <= w /\ i - j <= w}
    IN  SelectSeq(lines, LAMBDA text : \E j \in near : lines[j + 1] = text)

\* C22 (getContext): getContext(lines, i, w) is the lines of indices
\* max(0, i-w) .. min(len-1, i+w) joined by newlines; the window holds line i,
\* min(w, i) lines before it and min(w, len-1-i) lines after it, only lines of
\* the file, and between 1 and 2w+1 lines.
C22_ContextWindow ==
    \A c \in 1..Len(calls) :
        calls[c].fn = "getContext" =>
            LET window == split(calls[c].returned)
                len    == Len(calls[c].lines)
                first  == IF calls[c].i - calls[c].w > 0 THEN calls[c].i - calls[c].w ELSE 0
                last   == IF calls[c].i + calls[c].w < len - 1 THEN calls[c].i + calls[c].w
                          ELSE len - 1
            IN  /\ calls[c].returned = join(SubSeq(calls[c].lines, first + 1, last + 1))
                /\ window = LinesWithin(calls[c].lines, calls[c].i, calls[c].w)
                /\ window[calls[c].i - first + 1] = calls[c].lines[calls[c].i + 1]
                /\ calls[c].i - first = Min({calls[c].w, calls[c].i})
                /\ Len(window) - (calls[c].i - first) - 1
                      = Min({calls[c].w, len - 1 - calls[c].i})
                /\ \A k \in 1..Len(window) : \E j \in 1..len : window[k] = calls[c].lines[j]
                /\ 1 <= Len(window) /\ Len(window) <= 2 * calls[c].w + 1

\* a window clipped at the start of the file and not at its end: line 1 of 6
\* with half-width 2 gives lines 0 to 3
C22_Witness ==
    /\ Len(calls) = 1
    /\ calls[1].fn = "getContext"
    /\ Len(calls[1].lines) = 6 /\ calls[1].i = 1 /\ calls[1].w = 2
    /\ calls[1].returned = "line 1\nline 2\nline 3\nline 4"

\* the catalog entries with the id of a rule
CatalogEntries(id) == {k \in 1..Len(asvsRules) : asvsRules[k].id = id}

SameMetadata(a, b) ==
    /\ a.severity = b.severity
    /\ a.category = b.category
    /\ a.title = b.title
    /\ a.description = b.description
    /\ a.level = b.level

\* C23 (rule metadata): the rule a contextual detector attaches to its finding
\* has the severity, category, title, description and level of the catalog
\* entry with the same id.
C23_MetadataConsistent ==
    Returned =>
        \A f \in 1..Len(result.findings) :
            result.findings[f].rule.id \in ContextualIds =>
                \A k \in CatalogEntries(result.findings[f].rule.id) :
                    SameMetadata(result.findings[f].rule, asvsRules[k])

\* an eval finding is returned under the title and description of the detector,
\* which are not those of the catalog's V5.3.3, while severity, category and
\* level agree
C23_Divergence ==
    /\ Returned
    /\ \E f \in 1..Len(result.findings) :
          /\ result.findings[f].rule.id = "V5.3.3"
          /\ result.findings[f].rule.title = "Dangerous eval() Usage"
          /\ \E k \in CatalogEntries("V5.3.3") :
                /\ asvsRules[k].title = "XSS Risk - eval"
                /\ asvsRules[k].description # result.findings[f].rule.description
                /\ asvsRules[k].severity = result.findings[f].rule.severity
                /\ asvsRules[k].category = result.findings[f].rule.category
                /\ asvsRules[k].level = result.findings[f].rule.level

\* some taint-source signature occurs in the window
TaintSignature(window) ==
    \E k \in 1..Len(userInputPatterns) : test(userInputPatterns[k], window)

\* what the SQL, command and XSS detectors see on a line: whether it triggers
\* them and the variable they extract from it ("" when none)
TriggerAndVariable(line) ==
    LET sqlVar(m) == IF m.index = 0 THEN "" ELSE Group(line, m, 1)
    IN  { [id |-> "V5.1.1", triggered |-> matchAll(sqlPattern, line) # <<>>,
           variable |-> sqlVar(matchFirst(sqlConcatPattern, line))],
          [id |-> "V5.1.2", triggered |-> matchAll(cmdPattern, line) # <<>>,
           variable |-> CommandVariable(line)],
          [id |-> "V5.3.1", triggered |-> matchAll(xssPattern, line) # <<>>,
           variable |-> AssignedVariable(line)] }

\* C24 (isUserInput in the SQL, command and XSS detectors): the variable handed
\* to isUserInput is taken from the trigger line, which is in the window, so
\* the window always contains it; a line has a finding of the detector if and
\* only if it triggers the detector, a variable is extracted, some taint-source
\* signature occurs in the window and no sanitizer signature does, whichever
\* variable was extracted.
C24_TaintAnywhereInWindow ==
    (Returned /\ Len(files) = 1) =>
        \A l \in 1..Len(ScannedLines) :
            \A d \in TriggerAndVariable(ScannedLines[l]) :
                LET window == WindowAt(ScannedLines, l, 10)
                IN  /\ includes(window, ScannedLines[l])
                    /\ includes(ScannedLines[l], d.variable)
                    /\ includes(window, d.variable)
                    /\ (FindingsAt(d.id, files[1].path, l) # <<>>)
                          <=> /\ d.triggered
                              /\ d.variable # ""
                              /\ TaintSignature(window)
                              /\ ~isSanitized(window)

\* a query concatenating `limit` is reported because the line next to it reads
\* `name` from the request: the variable extracted is not the tainted one
C24_Witness ==
    /\ Returned /\ Len(files) = 1
    /\ \E l \in 1..Len(ScannedLines) :
          /\ ScannedLines[l] = "db.query(\"SELECT * FROM t LIMIT \" + limit);"
          /\ \E d \in TriggerAndVariable(ScannedLines[l]) :
                d.id = "V5.1.1" /\ d.triggered /\ d.variable = "limit"
          /\ \E c \in 1..Len(ScannedLines) : ScannedLines[c] = "const name = req.body.name;"
          /\ ~includes(files[1].content, "limit =")
          /\ Len(FindingsAt("V5.1.1", files[1].path, l)) = 1

\* the findings of a list that carry the id of a contextual detector
ContextualOf(findings) == SelectSeq(findings, LAMBDA f : f.rule.id \in ContextualIds)

\* C25 (contextual findings and the rules argument): two calls of analyzeCode
\* on the same file list return the same findings of ids V5.1.1, V5.1.2,
\* V5.3.1, V5.3.3 and V2.1.1, whatever rule lists they were given.
C25_RulesDoNotSelectDetectors ==
    \A a, b \in 1..Len(calls) :
        (/\ calls[a].fn = "analyzeCode" /\ calls[b].fn = "analyzeCode"
         /\ calls[a].files = calls[b].files)
        => ContextualOf(calls[a].returned) = ContextualOf(calls[b].returned)

\* a call with the empty list and a call with the Cryptography rules on the
\* same file both return the SQL injection finding, an id neither list holds
C25_Witness ==
    /\ Len(calls) = 2
    /\ calls[1].fn = "analyzeCode" /\ calls[2].fn = "analyzeCode"
    /\ calls[1].rules = <<>>
    /\ calls[2].rules # <<>>
    /\ \A k \in 1..Len(calls[2].rules) : calls[2].rules[k] \notin ContextualIds
    /\ "V5.1.1" \in IdsOf(calls[1].returned)
    /\ ContextualOf(calls[1].returned) # <<>>
    /\ ContextualOf(calls[1].returned) = ContextualOf(calls[2].returned)

\* the files of the list that are analysed
CodeFilesOf(fs) == SelectSeq(fs, LAMBDA f : isCodeFile(f.path))

\* the lines of a text: one more than its line feeds
LineCount(text) == 1 + Cardinality({p \in 1..Len(text) : SubSeq(text, p, p) = "\n"})

\* C26 (languageStats): languageStats has one entry for each language of the
\* code files and no language twice; an entry counts the files of its language
\* and their lines, each file at least one line; the file counts sum to
\* totalFiles, the line counts to totalLines; the entries are in descending
\* order of lines.
C26_LanguageStats ==
    Returned =>
        LET stats == result.languageStats
            code  == CodeFilesOf(files)
            of(language) == {k \in 1..Len(code) : getLanguageFromFile(code[k].path) = language}
        IN  /\ \A a, b \in 1..Len(stats) : a # b => stats[a].language # stats[b].language
            /\ {stats[k].language : k \in 1..Len(stats)}
                  = {getLanguageFromFile(code[k].path) : k \in 1..Len(code)}
            /\ \A k \in 1..Len(stats) :
                  /\ stats[k].files = Cardinality(of(stats[k].language))
                  /\ stats[k].lines
                        = Sum(Tup([c \in 1..Len(code) |->
                                     IF c \in of(stats[k].language)
                                     THEN LineCount(code[c].content) ELSE 0]))
                  /\ stats[k].lines >= stats[k].files
            /\ Sum(Tup([k \in 1..Len(stats) |-> stats[k].files])) = result.totalFiles
            /\ Sum(Tup([k \in 1..Len(stats) |-> stats[k].lines])) = result.totalLines
            /\ \A k \in 1..(Len(stats) - 1) : stats[k].lines >= stats[k + 1].lines

\* the empty Python file comes first in the archive and counts one line; the
\* JavaScript file after it has three lines and comes first in languageStats
C26_Witness ==
    /\ Returned
    /\ Len(files) = 2
    /\ files[1].path = "lib/empty.py" /\ files[1].content = ""
    /\ files[2].path = "src/db.js"
    /\ Len(result.languageStats) = 2
    /\ result.languageStats[1].language = getLanguageFromFile("src/db.js")
    /\ result.languageStats[1].lines = 3
    /\ result.languageStats[2].language = getLanguageFromFile("lib/empty.py")
    /\ result.languageStats[2].files = 1 /\ result.languageStats[2].lines = 1
    /\ result.totalLines = 4 /\ result.totalFiles = 2

\* the directories processZipFile leaves out
ExcludedDirectories == {"node_modules", "dist", "build", ".git", "vendor", "venv"}

\* the path lies under a directory of that name
UnderDirectory(path, dir) ==
    startsWith(path, dir \o "/") \/ includes(path, "/" \o dir \o "/")

\* the path or one of its directories has a name that begins with a dot
HiddenPath(path) == startsWith(path, ".") \/ includes(path, "/.")

\* the size in bytes of the archive's entry of that name
SizeOfEntry(name) ==
    Sum(Tup([k \in 1..Len(zip.entries) |->
               IF zip.entries[k].name = name THEN zip.entries[k].bytes ELSE 0]))

\* C27 (processing statistics): when processZipFile resolves, processedFiles
\* is the number of files returned; processedFiles, skippedFiles and the
\* directory entries add up to totalFiles; totalSize is the sum of the sizes of
\* the files returned; each file returned is at most 10MB, not hidden and not
\* under an excluded directory.
C27_ProcessingStats ==
    zip.phase = "resolved" =>
        /\ zip.stats.processedFiles = Len(zip.files)
        /\ zip.stats.processedFiles + zip.stats.skippedFiles
              + Cardinality({k \in 1..Len(zip.entries) : zip.entries[k].dir})
           = zip.stats.totalFiles
        /\ zip.stats.totalSize
              = Sum(Tup([f \in 1..Len(zip.files) |-> SizeOfEntry(zip.files[f].path)]))
        /\ \A f \in 1..Len(zip.files) :
              /\ SizeOfEntry(zip.files[f].path) <= 10 * 1024 * 1024
              /\ ~HiddenPath(zip.files[f].path)
              /\ \A dir \in ExcludedDirectories : ~UnderDirectory(zip.files[f].path, dir)

\* an archive of a directory, an oversize file and a source file: one file
\* returned, one skipped, and totalSize is the size of the file returned alone
C27_Witness ==
    /\ zip.phase = "resolved"
    /\ Len(zip.entries) = 3
    /\ zip.entries[1].name = "src/" /\ zip.entries[1].dir
    /\ zip.entries[2].name = "data/dump.sql" /\ zip.entries[2].bytes > 10 * 1024 * 1024
    /\ zip.files = <<FileContent("src/app.js", "eval(userCode)")>>
    /\ zip.stats.totalFiles = 3
    /\ zip.stats.processedFiles = 1 /\ zip.stats.skippedFiles = 1
    /\ zip.stats.totalSize = 14

\* C28 (Home state machine): in every state of the page, result is non-null
\* exactly in state complete, error is empty in states idle and processing,
\* and at most one call of handleFileSelect is in flight, one exactly in state
\* processing; a call starts from state idle only, and the page turns to
\* complete or error only from state processing, by the one call in flight.
C28_HomeStateMachine ==
    /\ [](/\ home.state \in {"idle", "processing", "complete", "error"}
          /\ (home.result # NoResult) <=> (home.state = "complete")
          /\ home.state \in {"idle", "processing"} => home.error = ""
          /\ home.inFlight <= 1
          /\ (home.inFlight = 1) <=> (home.state = "processing"))
    /\ [][/\ home'.inFlight > home.inFlight => home.state = "idle"
          /\ (home'.state \in {"complete", "error"} /\ home'.state # home.state)
                => (home.state = "processing" /\ home.inFlight = 1 /\ home'.inFlight = 0)]_vars

\* an archive with a source file was processed and analysed: the page shows a
\* result with a finding, and no call is in flight
C28_Witness ==
    /\ home.state = "complete"
    /\ home.result # NoResult
    /\ home.result.totalFindings = 1
    /\ home.error = ""
    /\ home.inFlight = 0
    /\ zip.phase = "resolved"

\* C29 (every analysis ends): when the page is in state processing and the
\* promise of processZipFile has settled, the page later is in state complete
\* or error; a step that leaves state complete or error leads to state idle
\* with result, error and progress cleared.
C29_AnalysisEnds ==
    /\ (home.state = "processing" /\ zip.phase \in {"resolved", "rejected"})
          ~> (home.state \in {"complete", "error"})
    /\ [][(home.state \in {"complete", "error"} /\ home' # home)
             => /\ home'.state = "idle"
                /\ home'.result = NoResult
                /\ home'.error = ""
                /\ home'.progress = ""]_vars

\* the page is back in state idle, cleared, after a run that ended in error:
\* the rejected call of processZipFile is still the last one
C29_Witness ==
    /\ home.state = "idle"
    /\ home.progress = "" /\ home.error = "" /\ home.result = NoResult
    /\ home.inFlight = 0
    /\ zip.phase = "rejected"
    /\ zip.error # ""

====
